---- MODULE Spec2Model ----
(***************************************************************************)
(* QuickIM server (src/server.py, src/protocol.py): the per-connection     *)
(* workers of IMServer, the client registry IMServer.clients, the sessions *)
(* and the persistent store, as a state machine.                           *)
(*                                                                         *)
(* One worker thread runs _handle_client for each accepted connection.     *)
(* A worker's step is one maximal piece of a handler that touches shared   *)
(* state once: a `with self.clients_lock` block, a store call together     *)
(* with the reply that follows it, or one Session.send.                     *)
(***************************************************************************)
EXTENDS Integers, Sequences, FiniteSets, TLC

\* ------------------------------------------------------------------ bounds
\* connections the listener accepts in a run
NumSessions == 2
\* frames the server reads in a run, over all connections
MaxFrames == 3

\* calls of ClientSession.send a thread makes in a run of the send model
MaxSends == 2
\* pieces in which sendall hands one frame to the socket
FrameParts == 2

Sessions == 1..NumSessions
None == 0

\* ------------------------------------------------------------ text values
\* Strings are sequences of one-character strings, so that strip, len and
\* isalnum are computed.
Ann == <<"a", "n", "n">>
Bob == <<"b", "o", "b">>
Cat == <<"c", "a", "t">>
Empty == <<>>
Blank == <<" ">>
Pass == <<"p", "a", "s", "s">>
Nope == <<"n", "o", "p", "e">>
NoName == <<"?">>

Whitespace == {" ", "\t", "\n", "\r"}
AlnumChars == {"a", "b", "c", "e", "h", "i", "n", "o", "p", "s", "t", "w", "0", "1"}

RECURSIVE lstrip(_)
lstrip(str) ==
    IF str # <<>> /\ Head(str) \in Whitespace THEN lstrip(Tail(str)) ELSE str

RECURSIVE rstrip(_)
rstrip(str) ==
    IF str # <<>> /\ str[Len(str)] \in Whitespace
    THEN rstrip(SubSeq(str, 1, Len(str) - 1))
    ELSE str

\* str.strip()
strip(str) == rstrip(lstrip(str))

\* str.isalnum(): non-empty and every character alphanumeric
isalnum(str) == str # <<>> /\ \A i \in DOMAIN str : str[i] \in AlnumChars

\* ------------------------------------------------- protocol.py: messages
MAX_AVATAR_SIZE == 524288

SUCCESS == "SUCCESS"
FAIL == "FAIL"
ONLINE == "ONLINE"
OFFLINE == "OFFLINE"
DELIVERED == "DELIVERED"
USER_OFFLINE == "USER_OFFLINE"
DELIVERY_FAILED == "DELIVERY_FAILED"
INVALID_MESSAGE == "INVALID_MESSAGE"

build_response(action, code, message) ==
    [cmd |-> "RESPONSE", action |-> action, code |-> code, message |-> message]

build_error(message) == [cmd |-> "ERROR", message |-> message]

build_presence(username, status) ==
    [cmd |-> "PRESENCE", username |-> username, status |-> status]

build_receive_msg(from_user, content, msg_id, timestamp) ==
    [cmd |-> "MSG_RECEIVE", from_user |-> from_user, content |-> content,
     msg_id |-> msg_id, timestamp |-> timestamp]

build_msg_ack(msg_id, status) ==
    [cmd |-> "MSG_ACK", msg_id |-> msg_id, status |-> status]

build_contact_list(contacts) == [cmd |-> "CONTACT_LIST", contacts |-> contacts]

build_user_search_result(users) == [cmd |-> "USER_SEARCH_RES", users |-> users]

build_earthquake_recv(from_user, intensity) ==
    [cmd |-> "EARTHQUAKE_RECV", from_user |-> from_user, intensity |-> intensity]

build_avatar_data(username, avatar_data) ==
    [cmd |-> "AVATAR_DATA", username |-> username, avatar_data |-> avatar_data]

NoMsg == [cmd |-> "NONE"]

\* ------------------------------------------- protocol.py: the wire format
\* A byte string is a sequence of numbers 0..255; a str is the sequence of its
\* code points; an IntEnum member is its value.
PROTOCOL_MAGIC == <<81, 80>>
PROTOCOL_VERSION == 1
HEADER_SIZE == 9
MAX_MESSAGE_SIZE == 10485760

\* class Command
Command ==
    [REGISTER |-> 1, LOGIN |-> 2, LOGOUT |-> 3,
     MSG_SEND |-> 256, MSG_RECEIVE |-> 257, MSG_ACK |-> 258,
     CONTACT_ADD |-> 512, CONTACT_REMOVE |-> 513, CONTACT_LIST_REQ |-> 514,
     CONTACT_LIST |-> 515,
     USER_SEARCH |-> 768, USER_SEARCH_RES |-> 769, USER_LIST_REQ |-> 770,
     USER_LIST |-> 771,
     PRESENCE |-> 1024, RESPONSE |-> 1280, ERROR |-> 1281,
     EARTHQUAKE_SEND |-> 1536, EARTHQUAKE_RECV |-> 1537,
     AVATAR_SET |-> 1792, AVATAR_GET |-> 1793, AVATAR_DATA |-> 1794]

\* the values of ResponseCode, PresenceStatus, AckStatus and ActionCode
EnumValues ==
    [ResponseCode |-> {0, 1}, PresenceStatus |-> {0, 1}, AckStatus |-> 0..3,
     ActionCode |-> 1..6]

\* an exception raised by the codec
Raise(error) == [cmd |-> "RAISE", error |-> error]

\* data[a:b] of Python, for 0 <= a <= b
Slice(data, a, b) == SubSeq(data, a + 1, IF b < Len(data) THEN b ELSE Len(data))

\* str.encode('utf-8') of one code point
Utf8Char(cp) ==
    IF cp < 128 THEN <<cp>>
    ELSE IF cp < 2048 THEN <<192 + (cp \div 64), 128 + (cp % 64)>>
    ELSE IF cp < 65536
    THEN <<224 + (cp \div 4096), 128 + ((cp \div 64) % 64), 128 + (cp % 64)>>
    ELSE <<240 + (cp \div 262144), 128 + ((cp \div 4096) % 64),
           128 + ((cp \div 64) % 64), 128 + (cp % 64)>>

\* str.encode('utf-8'): the bytes of the code points, one after the other
RECURSIVE Utf8Encode(_)
Utf8Encode(str) ==
    IF Len(str) = 0 THEN <<>>
    ELSE IF Len(str) = 1 THEN Utf8Char(str[1])
    ELSE LET h == Len(str) \div 2
         IN Utf8Encode(SubSeq(str, 1, h)) \o Utf8Encode(SubSeq(str, h + 1, Len(str)))

\* the length of the sequence a lead byte announces (0: no lead byte)
Utf8Width(b) ==
    IF b < 128 THEN 1
    ELSE IF b >= 194 /\ b <= 223 THEN 2
    ELSE IF b >= 224 /\ b <= 239 THEN 3
    ELSE IF b >= 240 /\ b <= 244 THEN 4
    ELSE 0

\* the code point of the sequence of w bytes that starts at position p
Utf8CodePoint(data, p, w) ==
    IF w = 1 THEN data[p]
    ELSE IF w = 2 THEN (data[p] - 192) * 64 + (data[p + 1] - 128)
    ELSE IF w = 3
    THEN (data[p] - 224) * 4096 + (data[p + 1] - 128) * 64 + (data[p + 2] - 128)
    ELSE (data[p] - 240) * 262144 + (data[p + 1] - 128) * 4096
         + (data[p + 2] - 128) * 64 + (data[p + 3] - 128)

\* the positions of the bytes that are no continuation bytes 10xxxxxx
Utf8Leads(data) ==
    SelectSeq([i \in 1..Len(data) |-> i], LAMBDA i : ~(data[i] >= 128 /\ data[i] <= 191))

\* bytes.decode('utf-8') succeeds: every sequence starts with a lead byte, has the
\* length the lead byte announces, and is the shortest form of a code point that is
\* no surrogate
Utf8Valid(data) ==
    LET leads == Utf8Leads(data) IN
    \/ Len(data) = 0
    \/ /\ Len(leads) > 0
       /\ leads[1] = 1
       /\ \A k \in DOMAIN leads :
             LET p == leads[k]
                 q == IF k < Len(leads) THEN leads[k + 1] ELSE Len(data) + 1
                 w == Utf8Width(data[p])
             IN /\ w = q - p
                /\ w = 3 => (Utf8CodePoint(data, p, 3) >= 2048
                             /\ ~(Utf8CodePoint(data, p, 3) >= 55296
                                  /\ Utf8CodePoint(data, p, 3) <= 57343))
                /\ w = 4 => (Utf8CodePoint(data, p, 4) >= 65536
                             /\ Utf8CodePoint(data, p, 4) <= 1114111)

\* bytes.decode('utf-8') of valid data
Utf8Decode(data) ==
    LET leads == Utf8Leads(data) IN
    [k \in DOMAIN leads |-> Utf8CodePoint(data, leads[k], Utf8Width(data[leads[k]]))]

\* ------------------------------------------------------------ BinaryWriter
\* struct.pack('>B' / '>H' / '>I', value); struct.error outside the range
write_uint8(value) == <<value>>
write_uint16(value) == <<value \div 256, value % 256>>
write_uint32(value) ==
    <<value \div 16777216, (value \div 65536) % 256, (value \div 256) % 256, value % 256>>

\* the length prefix counts the characters, not the encoded bytes
write_string_CountsCharacters(value) == write_uint16(Len(value)) \o Utf8Encode(value)

write_string(value) == write_uint16(Len(Utf8Encode(value))) \o Utf8Encode(value)

write_bytes(value) == write_uint32(Len(value)) \o value

RECURSIVE Flatten(_)
Flatten(seqs) == IF seqs = <<>> THEN <<>> ELSE Head(seqs) \o Flatten(Tail(seqs))

\* a field of a message: its attribute and how it is written or read
Field(name, type) == [name |-> name, type |-> type]

\* encode_message: what is written for each message class, in order
EncodeFields ==
    [REGISTER |-> <<Field("username", "str"), Field("password", "str")>>,
     LOGIN |-> <<Field("username", "str"), Field("password", "str")>>,
     LOGOUT |-> <<>>,
     MSG_SEND |-> <<Field("to", "str"), Field("content", "str"), Field("msg_id", "str")>>,
     MSG_RECEIVE |-> <<Field("from_user", "str"), Field("content", "str"),
                       Field("msg_id", "str"), Field("timestamp", "str")>>,
     MSG_ACK |-> <<Field("msg_id", "str"), Field("status", "uint8")>>,
     CONTACT_ADD |-> <<Field("contact", "str")>>,
     CONTACT_REMOVE |-> <<Field("contact", "str")>>,
     CONTACT_LIST_REQ |-> <<>>,
     CONTACT_LIST |-> <<Field("contacts", "contacts")>>,
     USER_SEARCH |-> <<Field("query", "str")>>,
     USER_SEARCH_RES |-> <<Field("users", "users")>>,
     PRESENCE |-> <<Field("username", "str"), Field("status", "uint8")>>,
     RESPONSE |-> <<Field("action", "uint8"), Field("code", "uint8"),
                    Field("message", "str")>>,
     ERROR |-> <<Field("message", "str")>>,
     EARTHQUAKE_SEND |-> <<Field("to", "str"), Field("intensity", "uint8")>>,
     EARTHQUAKE_RECV |-> <<Field("from_user", "str"), Field("intensity", "uint8")>>,
     AVATAR_SET |-> <<Field("avatar_data", "bytes")>>,
     AVATAR_GET |-> <<Field("username", "str")>>,
     AVATAR_DATA |-> <<Field("username", "str"), Field("avatar_data", "bytes")>>]

\* the bytes written for one field
WriteValue(type, v) ==
    CASE type = "str" -> write_string(v)
      [] type = "bytes" -> write_bytes(v)
      [] type = "uint8" -> write_uint8(v)
      [] type = "contacts" ->
            write_uint16(Len(v))
            \o Flatten([i \in DOMAIN v |->
                          write_string(v[i].username) \o write_uint8(v[i].status)])
      [] type = "users" ->
            write_uint16(Len(v)) \o Flatten([i \in DOMAIN v |-> write_string(v[i])])

\* struct.pack takes the field's numbers
Packs(type, v) ==
    CASE type = "str" -> Len(Utf8Encode(v)) <= 65535
      [] type = "bytes" -> TRUE    \* every length below 2^32 packs
      [] type = "uint8" -> v >= 0 /\ v <= 255
      [] type = "contacts" ->
            /\ Len(v) <= 65535
            /\ \A i \in DOMAIN v :
                  /\ Len(Utf8Encode(v[i].username)) <= 65535
                  /\ v[i].status >= 0 /\ v[i].status <= 255
      [] type = "users" ->
            Len(v) <= 65535 /\ \A i \in DOMAIN v : Len(Utf8Encode(v[i])) <= 65535

\* encode_message raises struct.error
EncodeRaises(m) ==
    \E i \in DOMAIN EncodeFields[m.cmd] :
        ~Packs(EncodeFields[m.cmd][i].type, m[EncodeFields[m.cmd][i].name])

\* encode_message: the frame of a message that packs
encode_message(m) ==
    LET fields == EncodeFields[m.cmd]
        payload == Flatten([i \in DOMAIN fields |->
                              WriteValue(fields[i].type, m[fields[i].name])])
    IN PROTOCOL_MAGIC \o <<PROTOCOL_VERSION>> \o write_uint16(Command[m.cmd])
       \o write_uint32(Len(payload)) \o payload

\* ------------------------------------------------------------ BinaryReader
\* the result of a read: the value and the new offset, or the exception raised
Got(val, off) == [ok |-> TRUE, val |-> val, off |-> off]
Failed(error) == [ok |-> FALSE, error |-> error]

\* struct.unpack_from raises struct.error when the buffer ends before the value
read_uint8(data, off) ==
    IF off + 1 > Len(data) THEN Failed("struct.error") ELSE Got(data[off + 1], off + 1)

read_uint16(data, off) ==
    IF off + 2 > Len(data) THEN Failed("struct.error")
    ELSE Got(data[off + 1] * 256 + data[off + 2], off + 2)

\* a value of 2^30 or more is read as 2^30: the value is a length, only compared
\* with MAX_MESSAGE_SIZE and with the lengths of the data, which are all smaller
read_uint32(data, off) ==
    IF off + 4 > Len(data) THEN Failed("struct.error")
    ELSE IF data[off + 1] >= 64 THEN Got(1073741824, off + 4)
    ELSE Got(data[off + 1] * 16777216 + data[off + 2] * 65536 + data[off + 3] * 256
             + data[off + 4], off + 4)

\* the statement after a read runs unless the read raised
Bind(r, K(_)) == IF r.ok THEN K(r) ELSE r

\* bytes.decode('utf-8') of a field that ends at the offset
Text(value, off) ==
    IF Utf8Valid(value) THEN Got(Utf8Decode(value), off) ELSE Failed("UnicodeDecodeError")

\* lines 138-142: the slice is what is left of the data when the length runs past it
read_string(data, off) ==
    Bind(read_uint16(data, off),
         LAMBDA length : Text(Slice(data, length.off, length.off + length.val),
                              length.off + length.val))

\* lines 144-148
read_bytes(data, off) ==
    Bind(read_uint32(data, off),
         LAMBDA length : Got(Slice(data, length.off, length.off + length.val),
                             length.off + length.val))

\* an IntEnum made from a byte: ValueError when the byte is no value of it
read_enum(enum, data, off) ==
    Bind(read_uint8(data, off),
         LAMBDA value : IF value.val \in EnumValues[enum] THEN value ELSE Failed("ValueError"))

\* decode_message: what is read for each command, in the order of the
\* constructor's arguments
DecodeFields ==
    [REGISTER |-> <<Field("username", "str"), Field("password", "str")>>,
     LOGIN |-> <<Field("username", "str"), Field("password", "str")>>,
     LOGOUT |-> <<>>,
     MSG_SEND |-> <<Field("to", "str"), Field("content", "str"), Field("msg_id", "str")>>,
     MSG_RECEIVE |-> <<Field("from_user", "str"), Field("content", "str"),
                       Field("msg_id", "str"), Field("timestamp", "str")>>,
     MSG_ACK |-> <<Field("msg_id", "str"), Field("status", "AckStatus")>>,
     CONTACT_ADD |-> <<Field("contact", "str")>>,
     CONTACT_REMOVE |-> <<Field("contact", "str")>>,
     CONTACT_LIST_REQ |-> <<>>,
     CONTACT_LIST |-> <<Field("contacts", "contacts")>>,
     USER_SEARCH |-> <<Field("query", "str")>>,
     USER_SEARCH_RES |-> <<Field("users", "users")>>,
     PRESENCE |-> <<Field("username", "str"), Field("status", "PresenceStatus")>>,
     RESPONSE |-> <<Field("action", "ActionCode"), Field("code", "ResponseCode"),
                    Field("message", "str")>>,
     ERROR |-> <<Field("message", "str")>>,
     EARTHQUAKE_SEND |-> <<Field("to", "str"), Field("intensity", "uint8")>>,
     EARTHQUAKE_RECV |-> <<Field("from_user", "str"), Field("intensity", "uint8")>>,
     AVATAR_SET |-> <<Field("avatar_data", "bytes")>>,
     AVATAR_GET |-> <<Field("username", "str")>>,
     AVATAR_DATA |-> <<Field("username", "str"), Field("avatar_data", "bytes")>>]

RECURSIVE ReadFields(_, _, _)

\* one value read at the offset; line 519: ContactInfo(read_string(),
\* PresenceStatus(read_uint8())); lines 517-519 and 526-527: count entries
ReadValue(type, data, off) ==
    CASE type = "str" -> read_string(data, off)
      [] type = "bytes" -> read_bytes(data, off)
      [] type = "uint8" -> read_uint8(data, off)
      [] type \in DOMAIN EnumValues -> read_enum(type, data, off)
      [] type = "contact" ->
            Bind(ReadFields(<<Field("username", "str"), Field("status", "PresenceStatus")>>,
                            data, Got(<<>>, off)),
                 LAMBDA r : Got([username |-> r.val[1], status |-> r.val[2]], r.off))
      [] type = "contacts" ->
            Bind(read_uint16(data, off),
                 LAMBDA count : ReadFields([i \in 1..count.val |-> Field("", "contact")],
                                           data, Got(<<>>, count.off)))
      [] type = "users" ->
            Bind(read_uint16(data, off),
                 LAMBDA count : ReadFields([i \in 1..count.val |-> Field("", "str")],
                                           data, Got(<<>>, count.off)))

\* the values of the fields read one after the other, after the values of acc; the
\* first exception ends the reading
ReadFields(fields, data, acc) ==
    IF fields = <<>> THEN acc
    ELSE Bind(acc,
              LAMBDA a : ReadFields(Tail(fields), data,
                                    Bind(ReadValue(Head(fields).type, data, a.off),
                                         LAMBDA v : Got(Append(a.val, v.val), v.off))))

\* the message object made of the values read, or the exception of the reading
MessageOf(cmd, fields, r) ==
    IF ~r.ok THEN Raise(r.error)
    ELSE [f \in {"cmd"} \cup {fields[i].name : i \in DOMAIN fields} |->
            IF f = "cmd" THEN cmd
            ELSE r.val[CHOOSE i \in DOMAIN fields : fields[i].name = f]]

\* lines 484-487: Command(command), "NONE" when it raises ValueError
CommandOf(command) ==
    IF \E c \in DOMAIN Command : Command[c] = command
    THEN CHOOSE c \in DOMAIN Command : Command[c] = command
    ELSE "NONE"

\* lines 488-554: the branch of the command, or "Unknown command" / "Unhandled command"
DecodeAs(cmd, payload) ==
    IF cmd \notin DOMAIN DecodeFields THEN Raise("ValueError")
    ELSE MessageOf(cmd, DecodeFields[cmd], ReadFields(DecodeFields[cmd], payload, Got(<<>>, 0)))

\* the version byte is not looked at
decode_message_AnyVersion(data) ==
    IF Len(data) < HEADER_SIZE THEN NoMsg
    ELSE IF SubSeq(data, 1, 2) # PROTOCOL_MAGIC THEN Raise("ValueError")
    ELSE DecodeAs(CommandOf(data[4] * 256 + data[5]),
                  Slice(data, HEADER_SIZE, HEADER_SIZE + read_uint32(data, 5).val))

\* decode_message: the message, NoMsg for None, or the exception raised
decode_message(data) ==
    IF Len(data) < HEADER_SIZE THEN NoMsg
    ELSE IF SubSeq(data, 1, 2) # PROTOCOL_MAGIC THEN Raise("ValueError")
    ELSE IF data[3] # PROTOCOL_VERSION THEN Raise("ValueError")
    ELSE DecodeAs(CommandOf(data[4] * 256 + data[5]),
                  Slice(data, HEADER_SIZE, HEADER_SIZE + read_uint32(data, 5).val))

\* line 586: the exceptions of decode_message become None (UnicodeDecodeError is a
\* ValueError)
Caught(m) ==
    IF m.cmd = "RAISE" /\ m.error \in {"ValueError", "struct.error", "UnicodeDecodeError"}
    THEN NoMsg
    ELSE m

\* recv_message on a socket that delivers the bytes of stream and then the end of
\* the connection: the message, or NoMsg for None
recv_message(stream) ==
    IF Len(stream) < HEADER_SIZE THEN NoMsg
    ELSE IF SubSeq(stream, 1, 2) # PROTOCOL_MAGIC THEN NoMsg
    ELSE IF read_uint32(stream, 5).val > MAX_MESSAGE_SIZE THEN NoMsg
    ELSE IF Len(stream) - HEADER_SIZE < read_uint32(stream, 5).val THEN NoMsg
    ELSE Caught(decode_message(SubSeq(stream, 1, HEADER_SIZE + read_uint32(stream, 5).val)))

\* ------------------------------------------------------------------ state
VARIABLES
    users,          \* store: table users, row i has id i
    contacts,       \* store: table contacts, set of <<user_id, contact_id>>
    avatars,        \* store: column users.avatar, by id (length of the blob, -1 for NULL)
    clients,        \* IMServer.clients, an insertion-ordered dict: sequence of [name, sess]
    pc,             \* position of each connection's worker
    username,       \* ClientSession.username
    user_id,        \* ClientSession.user_id
    authenticated,  \* ClientSession.authenticated
    sock,           \* ClientSession.sock: "open", "broken" (peer reset), "closed"
    msg,            \* worker local: the message being handled
    recipient_session, \* worker local of _handle_send_msg / _handle_earthquake
    delivered,      \* worker local of _handle_send_msg
    wrote,          \* the socket writes attempted by the last step, in order
    last,           \* the last step: operation, worker, message read
    logins,         \* history: usernames a LOGIN success reply was written for, per session
    offlines,       \* history: usernames _cleanup_session broadcast OFFLINE for, per session
    frames,         \* history: frames read so far
    lock,           \* ClientSession.lock: the thread that holds it, or None
    tx,             \* each thread's call of ClientSession.send, piece by piece
    stream,         \* the pieces written to each session's socket, in order
    clients_lock    \* IMServer.clients_lock: each thread is "out" of the `with
                    \* self.clients_lock` blocks, at the "wait" for one, or "in" one

vars == <<users, contacts, avatars, clients, pc, username, user_id, authenticated,
          sock, msg, recipient_session, delivered, wrote, last, logins, offlines, frames,
          lock, tx, stream, clients_lock>>

store == <<users, contacts, avatars>>
session_fields == <<username, user_id, authenticated>>
locals == <<msg, recipient_session, delivered>>
history == <<logins, offlines>>
wire == <<lock, tx, stream, clients_lock>>

\* --------------------------------------------------------- dict IMServer.clients
Has(d, k) == \E i \in DOMAIN d : d[i].name = k

Get(d, k) == IF Has(d, k) THEN d[CHOOSE i \in DOMAIN d : d[i].name = k].sess ELSE None

Put(d, k, v) ==
    IF Has(d, k)
    THEN [i \in DOMAIN d |-> IF d[i].name = k THEN [name |-> k, sess |-> v] ELSE d[i]]
    ELSE Append(d, [name |-> k, sess |-> v])

Del(d, k) == SelectSeq(d, LAMBDA e : e.name # k)

Keys(d) == {d[i].name : i \in DOMAIN d}

\* ------------------------------------------------------- ClientSession.send
\* send_message returns True when sendall succeeds and False on a socket error;
\* the write holds the session's lock, so it is one step.
SendOk(t) == sock[t] = "open"

Write(t, frame) == [to |-> t, frame |-> frame, ok |-> SendOk(t)]

\* a step of worker s: locked says that the step takes clients_lock, held that the
\* step's socket writes are made inside the `with self.clients_lock` block, raw
\* holds the bytes the step read from the socket or made
Step(op, s, m, locked) ==
    [op |-> op, s |-> s, msg |-> m, locked |-> locked, held |-> FALSE, raw |-> <<>>]

\* a step whose socket writes are made while clients_lock is held
StepHeld(op, s, m) ==
    [op |-> op, s |-> s, msg |-> m, locked |-> TRUE, held |-> TRUE, raw |-> <<>>]

\* ------------------------------------------------------------------ store
UserRow(name) == CHOOSE i \in DOMAIN users : users[i].username = name

UserExists(name) == \E i \in DOMAIN users : users[i].username = name

\* Database.get_user_id
get_user_id(name) == IF UserExists(name) THEN UserRow(name) ELSE None

\* the stored password is not compared
authenticate_user_AnyPassword(name, password, dberr) ==
    IF dberr THEN <<FALSE, "Authentication failed", None>>
    ELSE IF ~UserExists(name) THEN <<FALSE, "User not found", None>>
    ELSE <<TRUE, "Login successful", UserRow(name)>>

\* Database.authenticate_user: <<success, message, user_id>>
authenticate_user(name, password, dberr) ==
    IF dberr THEN <<FALSE, "Authentication failed", None>>
    ELSE IF ~UserExists(name) THEN <<FALSE, "User not found", None>>
    ELSE IF users[UserRow(name)].password = password
         THEN <<TRUE, "Login successful", UserRow(name)>>
         ELSE <<FALSE, "Invalid password", None>>

\* a thread that is in no call of ClientSession.send
NoSend == [to |-> None, n |-> 0, part |-> 0, at |-> "idle"]

\* ------------------------------------------------------------------- Init
InitUsers == <<[username |-> Ann, password |-> Pass],
               [username |-> Bob, password |-> Pass]>>

Init ==
    /\ users = InitUsers
    /\ contacts = {}
    /\ avatars = [i \in DOMAIN InitUsers |-> -1]
    /\ clients = <<>>
    /\ pc = [s \in Sessions |-> "idle"]
    /\ username = [s \in Sessions |-> NoName]
    /\ user_id = [s \in Sessions |-> None]
    /\ authenticated = [s \in Sessions |-> FALSE]
    /\ sock = [s \in Sessions |-> "closed"]
    /\ msg = [s \in Sessions |-> NoMsg]
    /\ recipient_session = [s \in Sessions |-> None]
    /\ delivered = [s \in Sessions |-> FALSE]
    /\ wrote = <<>>
    /\ last = Step("init", None, NoMsg, FALSE)
    /\ logins = [s \in Sessions |-> {}]
    /\ offlines = [s \in Sessions |-> <<>>]
    /\ frames = 0
    /\ lock = [s \in Sessions |-> None]
    /\ tx = [s \in Sessions |-> NoSend]
    /\ stream = [s \in Sessions |-> <<>>]
    /\ clients_lock = [s \in Sessions |-> "out"]

\* ------------------------------------------------------- IMServer.start
\* accept: a session object and its worker (sessions are numbered in accept order)
Accept(s) ==
    /\ pc[s] = "idle"
    /\ IF s = 1 THEN TRUE ELSE pc[s - 1] # "idle"
    /\ pc' = [pc EXCEPT ![s] = "recv"]
    /\ sock' = [sock EXCEPT ![s] = "open"]
    /\ wrote' = <<>>
    /\ last' = Step("accept", s, NoMsg, FALSE)
    /\ UNCHANGED <<wire, frames, store, clients, session_fields, locals, history>>

\* a well-formed frame can be read at the top of the loop
CanRead(s) ==
    /\ pc[s] = "recv"
    /\ sock[s] = "open"
    /\ frames < MaxFrames
    /\ frames' = frames + 1

\* the handler returns to the top of the read loop
Return(s) ==
    /\ pc' = [pc EXCEPT ![s] = "recv"]
    /\ msg' = [msg EXCEPT ![s] = NoMsg]
    /\ recipient_session' = [recipient_session EXCEPT ![s] = None]
    /\ delivered' = [delivered EXCEPT ![s] = FALSE]

\* the read loop is left (break, or an exception): finally: _cleanup_session
ExitLoop(s) ==
    /\ pc' = [pc EXCEPT ![s] = "cleanup"]
    /\ msg' = [msg EXCEPT ![s] = NoMsg]
    /\ recipient_session' = [recipient_session EXCEPT ![s] = None]
    /\ delivered' = [delivered EXCEPT ![s] = FALSE]

\* ------------------------------------------- IMServer._broadcast_presence
\* the loop is left at the first write that fails
RECURSIVE PresenceWrites_StopsOnFailure(_, _, _)
PresenceWrites_StopsOnFailure(d, name, frame) ==
    IF d = <<>> THEN <<>>
    ELSE IF Head(d).name = name THEN PresenceWrites_StopsOnFailure(Tail(d), name, frame)
    ELSE IF ~SendOk(Head(d).sess) THEN <<Write(Head(d).sess, frame)>>
    ELSE <<Write(Head(d).sess, frame)>> \o PresenceWrites_StopsOnFailure(Tail(d), name, frame)

RECURSIVE PresenceWrites(_, _, _)
PresenceWrites(d, name, frame) ==
    IF d = <<>> THEN <<>>
    ELSE (IF Head(d).name # name THEN <<Write(Head(d).sess, frame)>> ELSE <<>>)
         \o PresenceWrites(Tail(d), name, frame)

\* the writes of _broadcast_presence(session, status), in the dict's order
BroadcastPresence(s, status) ==
    IF ~authenticated[s] THEN <<>>
    ELSE PresenceWrites(clients, username[s], build_presence(username[s], status))


\* ------------------------------------------------------------------ inputs
Hi == <<"h", "i">>
M1 == <<"1">>
M2 == <<"2">>

\* a username of n characters
NameOfLen(n) == [i \in 1..n |-> "a"]

RegisterInputs ==
    [cmd : {"REGISTER"},
     username : {Cat, Ann, <<"c", "a">>, <<"c", "-", "t">>, NameOfLen(20), NameOfLen(21)},
     password : {Pass, <<"p", "w">>}]

LoginInputs ==
    {[cmd |-> "LOGIN", username |-> Ann, password |-> Pass],
     [cmd |-> "LOGIN", username |-> Ann, password |-> Nope],
     [cmd |-> "LOGIN", username |-> Blank \o Bob \o Blank, password |-> Pass],
     [cmd |-> "LOGIN", username |-> Cat, password |-> Pass]}

SendMsgInputs ==
    {[cmd |-> "MSG_SEND", to |-> Ann, content |-> Hi, msg_id |-> M1],
     [cmd |-> "MSG_SEND", to |-> Bob \o Blank, content |-> Hi, msg_id |-> M2],
     [cmd |-> "MSG_SEND", to |-> Cat, content |-> Hi, msg_id |-> M1],
     [cmd |-> "MSG_SEND", to |-> Blank, content |-> Hi, msg_id |-> M2],
     [cmd |-> "MSG_SEND", to |-> Ann, content |-> Empty, msg_id |-> M1]}

ContactInputs == [cmd : {"CONTACT_ADD", "CONTACT_REMOVE"}, contact : {Ann, Bob, Cat, Blank}]

SearchInputs ==
    [cmd : {"USER_SEARCH"},
     query : {Blank, <<"n">>, <<"b", "o">>, <<"a", "_", "n">>, <<"B", "O">>, <<"x">>}]

IntensityInputs == {0, 5, 11}

EarthquakeInputs == [cmd : {"EARTHQUAKE_SEND"}, to : {Ann, Bob, Cat}, intensity : IntensityInputs]

AvatarSizes == {0, MAX_AVATAR_SIZE, MAX_AVATAR_SIZE + 1}

AvatarSetInputs == [cmd : {"AVATAR_SET"}, avatar_data : AvatarSizes]

AvatarGetInputs == [cmd : {"AVATAR_GET"}, username : {Ann, Cat}]

\* frames that decode but that the server has no handler for
UnknownInputs == [cmd : {"PRESENCE", "ERROR"}]

NotAuthenticated(s) == <<Write(s, build_error("Not authenticated"))>>

\* ------------------------------------------------ IMServer._handle_register
\* Database.register_user: <<success, message>>
register_user(name, dberr) ==
    IF UserExists(name) THEN <<FALSE, "Username already exists">>
    ELSE IF dberr THEN <<FALSE, "Registration failed">>
    ELSE <<TRUE, "Registration successful">>

\* the username's characters are not tested
RegisterOutcome_SkipsAlnum(m, dberr) ==
    LET name == strip(m.username) IN
    IF Len(name) < 3 \/ Len(name) > 20 THEN <<FALSE, "Username must be 3-20 characters">>
    ELSE IF Len(m.password) < 4 THEN <<FALSE, "Password must be at least 4 characters">>
    ELSE register_user(name, dberr)

\* the outcome of _handle_register: <<success, message>>
RegisterOutcome(m, dberr) ==
    LET name == strip(m.username) IN
    IF Len(name) < 3 \/ Len(name) > 20 THEN <<FALSE, "Username must be 3-20 characters">>
    ELSE IF Len(m.password) < 4 THEN <<FALSE, "Password must be at least 4 characters">>
    ELSE IF ~isalnum(name) THEN <<FALSE, "Username must be alphanumeric">>
    ELSE register_user(name, dberr)

HandleRegister(s, m, dberr) ==
    /\ CanRead(s)
    /\ LET r == RegisterOutcome(m, dberr) IN
       /\ IF r[1]
          THEN /\ users' = Append(users, [username |-> strip(m.username), password |-> m.password])
               /\ avatars' = Append(avatars, -1)
          ELSE UNCHANGED <<users, avatars>>
       /\ wrote' = <<Write(s, build_response("REGISTER", IF r[1] THEN SUCCESS ELSE FAIL, r[2]))>>
    /\ last' = Step("register", s, m, FALSE)
    /\ Return(s)
    /\ UNCHANGED <<wire, contacts, clients, session_fields, sock, history>>

\* --------------------------------------------------- IMServer._handle_login
\* the credentials are looked at before the registry
LoginCheck_AuthenticatesFirst(s, m) ==
    /\ CanRead(s)
    /\ LET name == strip(m.username)
           r == authenticate_user(name, m.password, FALSE) IN
       IF ~r[1]
       THEN /\ wrote' = <<Write(s, build_response("LOGIN", FAIL, r[2]))>>
            /\ Return(s)
       ELSE IF Has(clients, name)
       THEN /\ wrote' = <<Write(s, build_response("LOGIN", FAIL, "User already logged in"))>>
            /\ Return(s)
       ELSE /\ wrote' = <<>>
            /\ pc' = [pc EXCEPT ![s] = "login_auth"]
            /\ msg' = [msg EXCEPT ![s] = m]
            /\ UNCHANGED <<recipient_session, delivered>>
    /\ last' = IF Has(clients, strip(m.username))
               THEN StepHeld("login", s, m)
               ELSE Step("login", s, m, TRUE)
    /\ UNCHANGED <<wire, store, clients, session_fields, sock, history>>

\* lines 307-313: the collision check, under clients_lock
LoginCheck(s, m) ==
    /\ CanRead(s)
    /\ IF Has(clients, strip(m.username))
       THEN /\ wrote' = <<Write(s, build_response("LOGIN", FAIL, "User already logged in"))>>
            /\ Return(s)
       ELSE /\ wrote' = <<>>
            /\ pc' = [pc EXCEPT ![s] = "login_auth"]
            /\ msg' = [msg EXCEPT ![s] = m]
            /\ UNCHANGED <<recipient_session, delivered>>
    /\ last' = IF Has(clients, strip(m.username))
               THEN StepHeld("login", s, m)
               ELSE Step("login", s, m, TRUE)
    /\ UNCHANGED <<wire, store, clients, session_fields, sock, history>>

\* line 323: the registry after the insert of a login that authenticated
LoginInsert(d, name, s) == Put(d, name, s)

\* the session is put into the registry before the outcome of the authentication is
\* looked at
LoginAuth_InsertsUnauthenticated(s, dberr) ==
    /\ pc[s] = "login_auth"
    /\ LET name == strip(msg[s].username)
           r == authenticate_user(name, msg[s].password, dberr) IN
       /\ clients' = LoginInsert(clients, name, s)
       /\ IF r[1]
          THEN /\ username' = [username EXCEPT ![s] = name]
               /\ user_id' = [user_id EXCEPT ![s] = r[3]]
               /\ authenticated' = [authenticated EXCEPT ![s] = TRUE]
               /\ pc' = [pc EXCEPT ![s] = "login_reply"]
               /\ wrote' = <<>>
               /\ UNCHANGED locals
          ELSE /\ wrote' = <<Write(s, build_response("LOGIN", FAIL, r[2]))>>
               /\ Return(s)
               /\ UNCHANGED session_fields
    /\ last' = Step("login_auth", s, msg[s], TRUE)
    /\ UNCHANGED <<wire, frames, store, sock, history>>

\* lines 315-323 and 328-329: authenticate; on success mark the session and insert it
LoginAuth(s, dberr) ==
    /\ pc[s] = "login_auth"
    /\ LET name == strip(msg[s].username)
           r == authenticate_user(name, msg[s].password, dberr) IN
       IF r[1]
       THEN /\ username' = [username EXCEPT ![s] = name]
            /\ user_id' = [user_id EXCEPT ![s] = r[3]]
            /\ authenticated' = [authenticated EXCEPT ![s] = TRUE]
            /\ clients' = LoginInsert(clients, name, s)
            /\ pc' = [pc EXCEPT ![s] = "login_reply"]
            /\ wrote' = <<>>
            /\ UNCHANGED locals
       ELSE /\ wrote' = <<Write(s, build_response("LOGIN", FAIL, r[2]))>>
            /\ Return(s)
            /\ UNCHANGED <<clients, session_fields>>
    /\ last' = Step("login_auth", s, msg[s],
                    authenticate_user(strip(msg[s].username), msg[s].password, dberr)[1])
    /\ UNCHANGED <<wire, frames, store, sock, history>>

\* line 325: the success reply
LoginReply(s) ==
    /\ pc[s] = "login_reply"
    /\ wrote' = <<Write(s, build_response("LOGIN", SUCCESS, "Login successful"))>>
    /\ logins' = [logins EXCEPT ![s] = @ \cup {username[s]}]
    /\ pc' = [pc EXCEPT ![s] = "login_bcast"]
    /\ last' = Step("login_reply", s, msg[s], FALSE)
    /\ UNCHANGED <<wire, frames, store, clients, session_fields, sock, locals, offlines>>

\* line 327: the ONLINE broadcast
LoginBroadcast(s) ==
    /\ pc[s] = "login_bcast"
    /\ wrote' = BroadcastPresence(s, ONLINE)
    /\ last' = StepHeld("login_bcast", s, msg[s])
    /\ Return(s)
    /\ UNCHANGED <<wire, frames, store, clients, session_fields, sock, history>>

\* -------------------------------------------------- IMServer._handle_logout
\* the read loop is not left after the reply
HandleLogout_KeepsReading(s) ==
    /\ CanRead(s)
    /\ wrote' = IF authenticated[s]
                THEN <<Write(s, build_response("LOGOUT", SUCCESS, "Goodbye!"))>>
                ELSE <<>>
    /\ last' = Step("logout", s, [cmd |-> "LOGOUT"], FALSE)
    /\ Return(s)
    /\ UNCHANGED <<wire, store, clients, session_fields, sock, history>>

\* lines 259-261 and 331-334: reply when authenticated, then break
HandleLogout(s) ==
    /\ CanRead(s)
    /\ wrote' = IF authenticated[s]
                THEN <<Write(s, build_response("LOGOUT", SUCCESS, "Goodbye!"))>>
                ELSE <<>>
    /\ last' = Step("logout", s, [cmd |-> "LOGOUT"], FALSE)
    /\ ExitLoop(s)
    /\ UNCHANGED <<wire, store, clients, session_fields, sock, history>>

\* lines 251-253: recv_message returns None (peer closed, socket error, framing error)
Disconnect(s) ==
    /\ pc[s] = "recv"
    /\ wrote' = <<>>
    /\ last' = Step("disconnect", s, NoMsg, FALSE)
    /\ ExitLoop(s)
    /\ UNCHANGED <<wire, frames, store, clients, session_fields, sock, history>>

\* line 279: a decoded message with no handler
HandleUnknown(s, m) ==
    /\ CanRead(s)
    /\ wrote' = <<Write(s, build_error("Unknown command"))>>
    /\ last' = Step("unknown", s, m, FALSE)
    /\ Return(s)
    /\ UNCHANGED <<wire, store, clients, session_fields, sock, history>>

\* ------------------------------------------------ IMServer._cleanup_session
\* the registry entry is left in place when the session is torn down
CleanupRemove_KeepsEntry(s) ==
    /\ pc[s] = "cleanup"
    /\ IF authenticated[s] /\ username[s] # NoName /\ username[s] # <<>>
       THEN /\ pc' = [pc EXCEPT ![s] = "cleanup_bcast"]
            /\ UNCHANGED <<clients, sock>>
       ELSE /\ sock' = [sock EXCEPT ![s] = "closed"]
            /\ pc' = [pc EXCEPT ![s] = "done"]
            /\ UNCHANGED clients
    /\ wrote' = <<>>
    /\ last' = Step("cleanup", s, NoMsg, authenticated[s])
    /\ UNCHANGED <<wire, frames, store, session_fields, locals, history>>

\* lines 480-483, and line 486 when the session never authenticated
CleanupRemove(s) ==
    /\ pc[s] = "cleanup"
    /\ IF authenticated[s] /\ username[s] # NoName /\ username[s] # <<>>
       THEN /\ clients' = Del(clients, username[s])
            /\ pc' = [pc EXCEPT ![s] = "cleanup_bcast"]
            /\ UNCHANGED sock
       ELSE /\ sock' = [sock EXCEPT ![s] = "closed"]
            /\ pc' = [pc EXCEPT ![s] = "done"]
            /\ UNCHANGED clients
    /\ wrote' = <<>>
    /\ last' = Step("cleanup", s, NoMsg, authenticated[s])
    /\ UNCHANGED <<wire, frames, store, session_fields, locals, history>>

\* line 484
CleanupBroadcast(s) ==
    /\ pc[s] = "cleanup_bcast"
    /\ wrote' = BroadcastPresence(s, OFFLINE)
    /\ offlines' = [offlines EXCEPT ![s] = Append(@, username[s])]
    /\ pc' = [pc EXCEPT ![s] = "cleanup_close"]
    /\ last' = StepHeld("cleanup_bcast", s, NoMsg)
    /\ UNCHANGED <<wire, frames, store, clients, session_fields, sock, locals, logins>>

\* line 486
CleanupClose(s) ==
    /\ pc[s] = "cleanup_close"
    /\ sock' = [sock EXCEPT ![s] = "closed"]
    /\ pc' = [pc EXCEPT ![s] = "done"]
    /\ wrote' = <<>>
    /\ last' = Step("close", s, NoMsg, FALSE)
    /\ UNCHANGED <<wire, frames, store, clients, session_fields, locals, history>>


\* ------------------------------------------------ IMServer._handle_send_msg
\* datetime.now().isoformat(): the clock is not part of the state
Now == <<"t">>

\* the ack does not look at the result of the forward write
AckStatusOf_AlwaysDelivered(ok) == DELIVERED

\* line 355: the status acknowledged after the forward write
AckStatusOf(ok) == IF ok THEN DELIVERED ELSE DELIVERY_FAILED

\* the recipient is tested without trimming it
InvalidMessage_NoStrip(m) == m.to = <<>> \/ m.content = <<>>

\* line 345
InvalidMessage(m) == strip(m.to) = <<>> \/ m.content = <<>>

\* the lookup takes the first session of the registry, whatever its key
Lookup_IgnoresName(d, name) == IF d = <<>> THEN None ELSE d[1].sess

\* line 350: the lookup, under clients_lock
Lookup(d, name) == Get(d, name)

\* lines 337-350: the checks and the registry lookup
HandleSendMsg(s, m) ==
    /\ CanRead(s)
    /\ IF ~authenticated[s]
       THEN /\ wrote' = NotAuthenticated(s)
            /\ last' = Step("send_msg", s, m, FALSE)
            /\ Return(s)
       ELSE IF InvalidMessage(m)
       THEN /\ wrote' = <<Write(s, build_msg_ack(m.msg_id, INVALID_MESSAGE))>>
            /\ last' = Step("send_msg", s, m, FALSE)
            /\ Return(s)
       ELSE /\ wrote' = <<>>
            /\ last' = Step("send_msg", s, m, TRUE)
            /\ recipient_session' = [recipient_session EXCEPT ![s] = Lookup(clients, strip(m.to))]
            /\ msg' = [msg EXCEPT ![s] = m]
            /\ pc' = [pc EXCEPT ![s] = "msg_route"]
            /\ UNCHANGED delivered
    /\ UNCHANGED <<wire, store, clients, session_fields, sock, history>>

\* line 354: the frame forwarded to the recipient's session
ForwardFrame(s) == build_receive_msg(username[s], msg[s].content, msg[s].msg_id, Now)

\* the lookup's result is used without testing it: with no session found the call
\* raises and the read loop is left without an ack
MsgRoute_NoAbsentCheck(s) ==
    /\ pc[s] = "msg_route"
    /\ IF recipient_session[s] # None
       THEN /\ wrote' = <<Write(recipient_session[s], ForwardFrame(s))>>
            /\ delivered' = [delivered EXCEPT ![s] = SendOk(recipient_session[s])]
            /\ pc' = [pc EXCEPT ![s] = "msg_ack"]
            /\ UNCHANGED <<msg, recipient_session>>
       ELSE /\ wrote' = <<>>
            /\ ExitLoop(s)
    /\ last' = Step("msg_route", s, msg[s], FALSE)
    /\ UNCHANGED <<wire, frames, store, clients, session_fields, sock, history>>

\* a failed write raises instead of returning False: the sender's read loop is left
MsgRoute_SendRaises(s) ==
    /\ pc[s] = "msg_route"
    /\ IF recipient_session[s] # None
       THEN /\ wrote' = <<Write(recipient_session[s], ForwardFrame(s))>>
            /\ IF SendOk(recipient_session[s])
               THEN /\ delivered' = [delivered EXCEPT ![s] = TRUE]
                    /\ pc' = [pc EXCEPT ![s] = "msg_ack"]
                    /\ UNCHANGED <<msg, recipient_session>>
               ELSE ExitLoop(s)
       ELSE /\ wrote' = <<Write(s, build_msg_ack(msg[s].msg_id, USER_OFFLINE))>>
            /\ Return(s)
    /\ last' = Step("msg_route", s, msg[s], FALSE)
    /\ UNCHANGED <<wire, frames, store, clients, session_fields, sock, history>>

\* lines 352-354 (forward to the session found) and 358-359 (none found)
MsgRoute(s) ==
    /\ pc[s] = "msg_route"
    /\ IF recipient_session[s] # None
       THEN /\ wrote' = <<Write(recipient_session[s], ForwardFrame(s))>>
            /\ delivered' = [delivered EXCEPT ![s] = SendOk(recipient_session[s])]
            /\ pc' = [pc EXCEPT ![s] = "msg_ack"]
            /\ UNCHANGED <<msg, recipient_session>>
       ELSE /\ wrote' = <<Write(s, build_msg_ack(msg[s].msg_id, USER_OFFLINE))>>
            /\ Return(s)
    /\ last' = Step("msg_route", s, msg[s], FALSE)
    /\ UNCHANGED <<wire, frames, store, clients, session_fields, sock, history>>

\* line 355
MsgAck(s) ==
    /\ pc[s] = "msg_ack"
    /\ wrote' = <<Write(s, build_msg_ack(msg[s].msg_id, AckStatusOf(delivered[s])))>>
    /\ last' = Step("msg_ack", s, msg[s], FALSE)
    /\ Return(s)
    /\ UNCHANGED <<wire, frames, store, clients, session_fields, sock, history>>

\* ---------------------------------------------- IMServer._handle_earthquake
Max(a, b) == IF a > b THEN a ELSE b
Min(a, b) == IF a < b THEN a ELSE b

\* the intensity is capped at 10 only
Clamp_NoLowerBound(i) == Min(10, i)

\* line 430
Clamp(i) == Max(1, Min(10, i))

\* lines 425-433
HandleEarthquake(s, m) ==
    /\ CanRead(s)
    /\ IF ~authenticated[s]
       THEN /\ wrote' = NotAuthenticated(s)
            /\ last' = Step("earthquake", s, m, FALSE)
            /\ Return(s)
       ELSE /\ wrote' = <<>>
            /\ last' = Step("earthquake", s, m, TRUE)
            /\ recipient_session' = [recipient_session EXCEPT ![s] = Lookup(clients, strip(m.to))]
            /\ msg' = [msg EXCEPT ![s] = m]
            /\ pc' = [pc EXCEPT ![s] = "eq_route"]
            /\ UNCHANGED delivered
    /\ UNCHANGED <<wire, store, clients, session_fields, sock, history>>

\* a forward that failed is reported to the sender
EarthquakeRoute_ReportsFailure(s) ==
    /\ pc[s] = "eq_route"
    /\ wrote' = IF recipient_session[s] # None
                THEN IF SendOk(recipient_session[s])
                     THEN <<Write(recipient_session[s],
                                  build_earthquake_recv(username[s], Clamp(msg[s].intensity)))>>
                     ELSE <<Write(recipient_session[s],
                                  build_earthquake_recv(username[s], Clamp(msg[s].intensity))),
                            Write(s, build_error("User is offline"))>>
                ELSE <<Write(s, build_error("User is offline"))>>
    /\ last' = Step("eq_route", s, msg[s], FALSE)
    /\ Return(s)
    /\ UNCHANGED <<wire, frames, store, clients, session_fields, sock, history>>

\* lines 435-440
EarthquakeRoute(s) ==
    /\ pc[s] = "eq_route"
    /\ wrote' = IF recipient_session[s] # None
                THEN <<Write(recipient_session[s],
                             build_earthquake_recv(username[s], Clamp(msg[s].intensity)))>>
                ELSE <<Write(s, build_error("User is offline"))>>
    /\ last' = Step("eq_route", s, msg[s], FALSE)
    /\ Return(s)
    /\ UNCHANGED <<wire, frames, store, clients, session_fields, sock, history>>

\* ------------------------------------------------------------ contacts
Alphabet == <<" ", "-", "0", "1", "a", "b", "c", "e", "h", "i", "n", "o", "p", "s", "t", "w">>
Rank(c) == CHOOSE i \in DOMAIN Alphabet : Alphabet[i] = c

\* x < y for strings (ORDER BY u.username)
RECURSIVE Less(_, _)
Less(x, y) ==
    IF y = <<>> THEN FALSE
    ELSE IF x = <<>> THEN TRUE
    ELSE IF Head(x) # Head(y) THEN Rank(Head(x)) < Rank(Head(y))
    ELSE Less(Tail(x), Tail(y))

RECURSIVE Sorted(_)
Sorted(S) ==
    IF S = {} THEN <<>>
    ELSE LET m == CHOOSE x \in S : \A y \in S \ {x} : Less(x, y)
         IN <<m>> \o Sorted(S \ {m})

\* Database.get_contacts: the contacts' usernames, sorted
get_contacts(uid) == Sorted({users[e[2]].username : e \in {c \in contacts : c[1] = uid}})

\* Database.add_contact: <<success, message>>
add_contact(uid, name, dberr) ==
    IF dberr THEN <<FALSE, "Failed to add contact">>
    ELSE IF get_user_id(name) = None THEN <<FALSE, "User not found">>
    ELSE IF get_user_id(name) = uid THEN <<FALSE, "Cannot add yourself">>
    ELSE IF <<uid, get_user_id(name)>> \in contacts THEN <<FALSE, "Contact already exists">>
    ELSE <<TRUE, "Contact added">>

\* Database.remove_contact: <<success, message>>
remove_contact(uid, name, dberr) ==
    IF dberr THEN <<FALSE, "Failed to remove contact">>
    ELSE IF get_user_id(name) = None THEN <<FALSE, "User not found">>
    ELSE IF <<uid, get_user_id(name)>> \in contacts THEN <<TRUE, "Contact removed">>
    ELSE <<FALSE, "Contact not in list">>

\* lines 402-407: each contact with its status against the registry
RECURSIVE ContactInfos(_, _)
ContactInfos(names, d) ==
    IF names = <<>> THEN <<>>
    ELSE <<[username |-> Head(names),
            status |-> IF Has(d, Head(names)) THEN ONLINE ELSE OFFLINE]>>
         \o ContactInfos(Tail(names), d)

\* IMServer._handle_add_contact, lines 362-376
HandleAddContact(s, m, dberr) ==
    /\ CanRead(s)
    /\ m.cmd = "CONTACT_ADD"
    /\ IF ~authenticated[s]
       THEN /\ wrote' = NotAuthenticated(s)
            /\ Return(s)
            /\ UNCHANGED contacts
       ELSE IF strip(m.contact) = <<>>
       THEN /\ wrote' = <<Write(s, build_response("ADD_CONTACT", FAIL, "Invalid username"))>>
            /\ Return(s)
            /\ UNCHANGED contacts
       ELSE LET r == add_contact(user_id[s], strip(m.contact), dberr) IN
            /\ wrote' = <<Write(s, build_response("ADD_CONTACT",
                                                  IF r[1] THEN SUCCESS ELSE FAIL, r[2]))>>
            /\ IF r[1]
               THEN /\ contacts' = contacts \cup {<<user_id[s], get_user_id(strip(m.contact))>>}
                    /\ pc' = [pc EXCEPT ![s] = "contacts_refresh"]
                    /\ UNCHANGED locals
               ELSE /\ Return(s)
                    /\ UNCHANGED contacts
    /\ last' = Step("add_contact", s, m, FALSE)
    /\ UNCHANGED <<wire, users, avatars, clients, session_fields, sock, history>>

\* IMServer._handle_remove_contact, lines 382-391
HandleRemoveContact(s, m, dberr) ==
    /\ CanRead(s)
    /\ m.cmd = "CONTACT_REMOVE"
    /\ IF ~authenticated[s]
       THEN /\ wrote' = NotAuthenticated(s)
            /\ Return(s)
            /\ UNCHANGED contacts
       ELSE LET r == remove_contact(user_id[s], strip(m.contact), dberr) IN
            /\ wrote' = <<Write(s, build_response("REMOVE_CONTACT",
                                                  IF r[1] THEN SUCCESS ELSE FAIL, r[2]))>>
            /\ IF r[1]
               THEN /\ contacts' = contacts \ {<<user_id[s], get_user_id(strip(m.contact))>>}
                    /\ pc' = [pc EXCEPT ![s] = "contacts_refresh"]
                    /\ UNCHANGED locals
               ELSE /\ Return(s)
                    /\ UNCHANGED contacts
    /\ last' = Step("remove_contact", s, m, FALSE)
    /\ UNCHANGED <<wire, users, avatars, clients, session_fields, sock, history>>

\* the body of _handle_get_contacts, lines 397-409; a store error at line 401 is an
\* exception that ends the read loop
GetContacts(s, dberr) ==
    IF ~authenticated[s]
    THEN wrote' = NotAuthenticated(s) /\ Return(s)
    ELSE IF dberr
    THEN wrote' = <<>> /\ ExitLoop(s)
    ELSE /\ wrote' = <<Write(s, build_contact_list(ContactInfos(get_contacts(user_id[s]), clients)))>>
         /\ Return(s)

\* lines 268-269: list-contacts
HandleGetContacts(s, dberr) ==
    /\ CanRead(s)
    /\ GetContacts(s, dberr)
    /\ last' = Step("get_contacts", s, [cmd |-> "CONTACT_LIST_REQ"], authenticated[s] /\ ~dberr)
    /\ UNCHANGED <<wire, store, clients, session_fields, sock, history>>

\* lines 378-379 and 393-394: the refreshed list after a contact change
ContactsRefresh(s, dberr) ==
    /\ pc[s] = "contacts_refresh"
    /\ GetContacts(s, dberr)
    /\ last' = Step("contacts_refresh", s, NoMsg, ~dberr)
    /\ UNCHANGED <<wire, frames, store, clients, session_fields, sock, history>>

\* ----------------------------------------------- IMServer._handle_search_user
\* sub occurs in str
Contains(str, sub) ==
    \E i \in 1..(Len(str) - Len(sub) + 1) : SubSeq(str, i, i + Len(sub) - 1) = sub

\* SQLite's LIKE compares ASCII letters without regard to case
UpperCase ==
    [A |-> "a", B |-> "b", C |-> "c", E |-> "e", H |-> "h", I |-> "i", N |-> "n",
     O |-> "o", P |-> "p", S |-> "s", T |-> "t", W |-> "w"]

Fold(c) == IF c \in DOMAIN UpperCase THEN UpperCase[c] ELSE c

\* str LIKE pat: % stands for any run of characters, _ for any one character
RECURSIVE Like(_, _)
Like(pat, str) ==
    IF pat = <<>> THEN str = <<>>
    ELSE IF Head(pat) = "%" THEN Like(Tail(pat), str) \/ (str # <<>> /\ Like(pat, Tail(str)))
    ELSE IF str = <<>> THEN FALSE
    ELSE /\ Head(pat) = "_" \/ Fold(Head(pat)) = Fold(Head(str))
         /\ Like(Tail(pat), Tail(str))

\* Database.search_users: username LIKE '%' + query + '%', id != exclude, LIMIT 20,
\* in id order
search_users(query, exclude) ==
    LET hits == SelectSeq([i \in DOMAIN users |-> i],
                          LAMBDA i : i # exclude
                                     /\ Like(<<"%">> \o query \o <<"%">>, users[i].username))
        names == [k \in DOMAIN hits |-> users[hits[k]].username]
    IN SubSeq(names, 1, Min(20, Len(names)))

\* lines 412-422
HandleSearchUser(s, m, dberr) ==
    /\ CanRead(s)
    /\ IF ~authenticated[s]
       THEN wrote' = NotAuthenticated(s) /\ Return(s)
       ELSE IF Len(strip(m.query)) < 1
       THEN wrote' = <<Write(s, build_user_search_result(<<>>))>> /\ Return(s)
       ELSE IF dberr
       THEN wrote' = <<>> /\ ExitLoop(s)
       ELSE /\ wrote' = <<Write(s, build_user_search_result(search_users(strip(m.query), user_id[s])))>>
            /\ Return(s)
    /\ last' = Step("search", s, m, FALSE)
    /\ UNCHANGED <<wire, store, clients, session_fields, sock, history>>

\* -------------------------------------------------------------- avatars
\* a blob of exactly MAX_AVATAR_SIZE bytes is rejected too
HandleAvatarSet_RejectsAtLimit(s, m, dberr) ==
    /\ CanRead(s)
    /\ IF ~authenticated[s]
       THEN wrote' = NotAuthenticated(s) /\ UNCHANGED avatars
       ELSE IF m.avatar_data >= MAX_AVATAR_SIZE
       THEN /\ wrote' = <<Write(s, build_response("AVATAR_SET", FAIL, "Avatar too large (max 512KB)"))>>
            /\ UNCHANGED avatars
       ELSE IF dberr
       THEN /\ wrote' = <<Write(s, build_response("AVATAR_SET", FAIL, "Failed to update avatar"))>>
            /\ UNCHANGED avatars
       ELSE /\ wrote' = <<Write(s, build_response("AVATAR_SET", SUCCESS, "Avatar updated"))>>
            /\ avatars' = [avatars EXCEPT ![user_id[s]] = m.avatar_data]
    /\ last' = Step("avatar_set", s, m, FALSE)
    /\ Return(s)
    /\ UNCHANGED <<wire, users, contacts, clients, session_fields, sock, history>>

\* lines 443-455
HandleAvatarSet(s, m, dberr) ==
    /\ CanRead(s)
    /\ IF ~authenticated[s]
       THEN wrote' = NotAuthenticated(s) /\ UNCHANGED avatars
       ELSE IF m.avatar_data > MAX_AVATAR_SIZE
       THEN /\ wrote' = <<Write(s, build_response("AVATAR_SET", FAIL, "Avatar too large (max 512KB)"))>>
            /\ UNCHANGED avatars
       ELSE IF dberr
       THEN /\ wrote' = <<Write(s, build_response("AVATAR_SET", FAIL, "Failed to update avatar"))>>
            /\ UNCHANGED avatars
       ELSE /\ wrote' = <<Write(s, build_response("AVATAR_SET", SUCCESS, "Avatar updated"))>>
            /\ avatars' = [avatars EXCEPT ![user_id[s]] = m.avatar_data]
    /\ last' = Step("avatar_set", s, m, FALSE)
    /\ Return(s)
    /\ UNCHANGED <<wire, users, contacts, clients, session_fields, sock, history>>

\* Database.get_avatar: the stored blob, or none when absent or empty
get_avatar(name) ==
    IF UserExists(name) /\ avatars[UserRow(name)] > 0 THEN avatars[UserRow(name)] ELSE -1

\* lines 458-464
HandleAvatarGet(s, m, dberr) ==
    /\ CanRead(s)
    /\ IF ~authenticated[s]
       THEN wrote' = NotAuthenticated(s) /\ Return(s)
       ELSE IF dberr
       THEN wrote' = <<>> /\ ExitLoop(s)
       ELSE /\ wrote' = <<Write(s, build_avatar_data(strip(m.username),
                                  IF get_avatar(strip(m.username)) > 0
                                  THEN get_avatar(strip(m.username)) ELSE 0))>>
            /\ Return(s)
    /\ last' = Step("avatar_get", s, m, FALSE)
    /\ UNCHANGED <<wire, store, clients, session_fields, sock, history>>

\* --------------------------------------------- recv_message in _handle_client
\* a frame as encode_message lays it out (lines 454-461), with any header values
FrameOf(magic, version, command, payload_len, payload) ==
    magic \o <<version>> \o write_uint16(command) \o write_uint32(payload_len) \o payload

\* n times the code point cp
Repeat(cp, n) == [i \in 1..n |-> cp]

\* strings: empty, ASCII, with two-, three- and four-byte characters, the longest
\* strings write_string takes (65535 bytes of one-byte and of three-byte
\* characters), and a string of 65536 bytes
Cp ==
    [empty |-> <<>>, hi |-> <<104, 105>>, ann |-> <<97, 110, 110>>,
     accent |-> <<99, 97, 102, 233>>, euro |-> <<8364, 49>>, emoji |-> <<128512>>,
     long |-> Repeat(97, 65535), longEuro |-> Repeat(8364, 21845),
     tooLong |-> Repeat(97, 65536)]

\* an ErrorMessage as a peer sends it
ErrorFrame == encode_message([cmd |-> "ERROR", message |-> Cp.hi])

\* what a connection delivers before it ends: frames of classes without a handler,
\* and frames that are broken in one way each (39321 is the code of no command)
FrameInputs ==
    {ErrorFrame,
     encode_message([cmd |-> "PRESENCE", username |-> Cp.hi, status |-> 1]),
     FrameOf(<<81, 81>>, PROTOCOL_VERSION, Command.ERROR, 4, write_string(Cp.hi)),
     FrameOf(PROTOCOL_MAGIC, PROTOCOL_VERSION + 1, Command.ERROR, 4, write_string(Cp.hi)),
     FrameOf(PROTOCOL_MAGIC, PROTOCOL_VERSION, Command.ERROR, MAX_MESSAGE_SIZE + 1, <<>>),
     FrameOf(PROTOCOL_MAGIC, PROTOCOL_VERSION, 39321, 0, <<>>),
     FrameOf(PROTOCOL_MAGIC, PROTOCOL_VERSION, Command.USER_LIST_REQ, 0, <<>>),
     SubSeq(ErrorFrame, 1, 5),
     SubSeq(ErrorFrame, 1, Len(ErrorFrame) - 1),
     FrameOf(PROTOCOL_MAGIC, PROTOCOL_VERSION, Command.ERROR, 0, <<>>),
     FrameOf(PROTOCOL_MAGIC, PROTOCOL_VERSION, Command.ERROR, 3, <<0, 1, 255>>),
     FrameOf(PROTOCOL_MAGIC, PROTOCOL_VERSION, Command.PRESENCE, 5, write_string(Cp.hi) \o <<7>>)}

\* the message classes _handle_client has a handler for (lines 255-277)
Dispatched ==
    {"REGISTER", "LOGIN", "LOGOUT", "MSG_SEND", "CONTACT_ADD", "CONTACT_REMOVE",
     "CONTACT_LIST_REQ", "USER_SEARCH", "EARTHQUAKE_SEND", "AVATAR_SET", "AVATAR_GET"}

\* lines 251-253 and 278-279: the loop reads what the connection delivers; None
\* leaves the loop, a message of a class without a handler is answered
ReadFrame(s) ==
    /\ CanRead(s)
    /\ \E f \in FrameInputs :
          LET m == recv_message(f) IN
          IF m = NoMsg
          THEN /\ wrote' = <<>>
               /\ last' = [Step("bad_frame", s, NoMsg, FALSE) EXCEPT !.raw = f]
               /\ ExitLoop(s)
          ELSE /\ m.cmd \notin Dispatched
               /\ wrote' = <<Write(s, build_error("Unknown command"))>>
               /\ last' = [Step("unknown", s, m, FALSE) EXCEPT !.raw = f]
               /\ Return(s)
    /\ UNCHANGED <<wire, store, clients, session_fields, sock, history>>

\* ------------------------------------------------------------- network
\* the sessions worker s writes to in its next step
NextWriteTargets(s) ==
    IF pc[s] \in {"msg_route", "eq_route"}
    THEN {IF recipient_session[s] # None THEN recipient_session[s] ELSE s}
    ELSE IF pc[s] \in {"login_bcast", "cleanup_bcast"}
    THEN {clients[i].sess : i \in {j \in DOMAIN clients : clients[j].name # username[s]}}
    ELSE IF pc[s] \in {"login_reply", "msg_ack", "contacts_refresh"}
    THEN {s}
    ELSE {}

\* the peer resets the connection: later writes to the socket fail, and nothing more
\* is read from it. The server sees a reset only through a write or a read, so the
\* reset is taken when a write to the socket is next.
PeerReset(t) ==
    /\ sock[t] = "open"
    /\ \E s \in Sessions : t \in NextWriteTargets(s)
    /\ sock' = [sock EXCEPT ![t] = "broken"]
    /\ wrote' = <<>>
    /\ last' = Step("peer_reset", t, NoMsg, FALSE)
    /\ UNCHANGED <<wire, frames, store, clients, pc, session_fields, locals, history>>

\* ---------------------------------------------------- ClientSession.send
\* The handlers above take a write as one step (Write); here a call of
\* ClientSession.send is followed piece by piece, for any thread and any session.

\* server.py 208: worker thread w calls send on session t
SendCall(w, t) ==
    /\ pc[w] = "recv" /\ pc[t] = "recv"
    /\ tx[w].at = "idle"
    /\ clients_lock[w] # "wait"
    /\ tx[w].n < MaxSends
    /\ tx' = [tx EXCEPT ![w] = [to |-> t, n |-> tx[w].n + 1, part |-> 0, at |-> "wait"]]
    /\ UNCHANGED <<lock, stream, clients_lock>>
    /\ UNCHANGED <<store, clients, pc, session_fields, sock, locals, wrote, last,
                   history, frames>>

\* the lock is taken whoever holds it
SendAcquire_NoLock(w) ==
    /\ tx[w].at = "wait"
    /\ lock' = [lock EXCEPT ![tx[w].to] = w]
    /\ tx' = [tx EXCEPT ![w].at = "in"]
    /\ UNCHANGED <<stream, clients_lock>>
    /\ UNCHANGED <<store, clients, pc, session_fields, sock, locals, wrote, last,
                   history, frames>>

\* server.py 209: `with self.lock` is entered when no thread holds the lock
SendAcquire(w) ==
    /\ tx[w].at = "wait"
    /\ lock[tx[w].to] = None
    /\ lock' = [lock EXCEPT ![tx[w].to] = w]
    /\ tx' = [tx EXCEPT ![w].at = "in"]
    /\ UNCHANGED <<stream, clients_lock>>
    /\ UNCHANGED <<store, clients, pc, session_fields, sock, locals, wrote, last,
                   history, frames>>

\* protocol.py 560: sendall hands the next piece of the frame to the socket
SendAll(w) ==
    /\ tx[w].at = "in"
    /\ tx[w].part < FrameParts
    /\ sock[tx[w].to] = "open"
    /\ stream' = [stream EXCEPT ![tx[w].to] =
                     Append(@, [by |-> w, n |-> tx[w].n, part |-> tx[w].part + 1])]
    /\ tx' = [tx EXCEPT ![w].part = @ + 1]
    /\ UNCHANGED <<lock, clients_lock>>
    /\ UNCHANGED <<store, clients, pc, session_fields, sock, locals, wrote, last,
                   history, frames>>

\* protocol.py 561-563 and server.py 210: the frame is out, or sendall raised a
\* socket error; send returns and the `with` block releases the lock
SendReturn(w) ==
    /\ tx[w].at = "in"
    /\ tx[w].part = FrameParts \/ sock[tx[w].to] # "open"
    /\ lock' = [lock EXCEPT ![tx[w].to] = None]
    /\ tx' = [tx EXCEPT ![w].at = "idle"]
    /\ UNCHANGED <<stream, clients_lock>>
    /\ UNCHANGED <<store, clients, pc, session_fields, sock, locals, wrote, last,
                   history, frames>>

\* the peer resets the connection while a send to it is under way
SendReset(t) ==
    /\ sock[t] = "open"
    /\ \E w \in Sessions : tx[w].at # "idle" /\ tx[w].to = t
    /\ sock' = [sock EXCEPT ![t] = "broken"]
    /\ UNCHANGED wire
    /\ UNCHANGED <<store, clients, pc, session_fields, locals, wrote, last,
                   history, frames>>

\* ------------------------------------------------- IMServer.clients_lock
\* a thread comes to one of the `with self.clients_lock` blocks (lines 310, 322,
\* 349, 404, 432, 472, 481). None of them is inside another one or inside
\* ClientSession.send, so the thread is in no block and in no send. n counts the
\* thread's calls (sends and blocks) so far.
EnterRegistryLock(w) ==
    /\ pc[w] = "recv"
    /\ clients_lock[w] = "out"
    /\ tx[w].at = "idle"
    /\ tx[w].n < MaxSends
    /\ clients_lock' = [clients_lock EXCEPT ![w] = "wait"]
    /\ tx' = [tx EXCEPT ![w].n = @ + 1]
    /\ UNCHANGED <<lock, stream>>
    /\ UNCHANGED <<store, clients, pc, session_fields, sock, locals, wrote, last,
                   history, frames>>

\* the block is entered whoever is in one
AcquireRegistryLock_NoWait(w) ==
    /\ clients_lock[w] = "wait"
    /\ clients_lock' = [clients_lock EXCEPT ![w] = "in"]
    /\ UNCHANGED <<lock, tx, stream>>
    /\ UNCHANGED <<store, clients, pc, session_fields, sock, locals, wrote, last,
                   history, frames>>

\* threading.Lock: the block is entered when no thread is in one
AcquireRegistryLock(w) ==
    /\ clients_lock[w] = "wait"
    /\ \A v \in Sessions : clients_lock[v] # "in"
    /\ clients_lock' = [clients_lock EXCEPT ![w] = "in"]
    /\ UNCHANGED <<lock, tx, stream>>
    /\ UNCHANGED <<store, clients, pc, session_fields, sock, locals, wrote, last,
                   history, frames>>

\* the end of the block: the sends made inside it (lines 312 and 475) have returned
ReleaseRegistryLock(w) ==
    /\ clients_lock[w] = "in"
    /\ tx[w].at = "idle"
    /\ clients_lock' = [clients_lock EXCEPT ![w] = "out"]
    /\ UNCHANGED <<lock, tx, stream>>
    /\ UNCHANGED <<store, clients, pc, session_fields, sock, locals, wrote, last,
                   history, frames>>

\* ------------------------------------------- encode_message / decode_message
CodecStrings == {Cp.empty, Cp.ann, Cp.accent, Cp.euro, Cp.emoji}

\* blobs: empty, short, with every kind of byte, and longer than a string can be
CodecBlobs == {<<>>, <<0>>, <<255, 0, 128, 10>>, [i \in 1..70000 |-> i % 256]}

\* the messages that are encoded: every class, every value of every enum, empty and
\* longest strings, empty blobs and empty lists
CodecSamples ==
    [cmd : {"REGISTER", "LOGIN"}, username : CodecStrings \cup {Cp.long}, password : {Cp.empty, Cp.ann}]
    \cup {[cmd |-> "LOGOUT"], [cmd |-> "CONTACT_LIST_REQ"]}
    \cup [cmd : {"MSG_SEND"}, to : {Cp.empty, Cp.ann}, content : CodecStrings \cup {Cp.long, Cp.longEuro},
          msg_id : {Cp.empty, Cp.hi}]
    \cup [cmd : {"MSG_RECEIVE"}, from_user : {Cp.ann}, content : CodecStrings \cup {Cp.longEuro},
          msg_id : {Cp.hi}, timestamp : {Cp.empty, Cp.ann}]
    \cup [cmd : {"MSG_ACK"}, msg_id : {Cp.empty, Cp.hi}, status : EnumValues.AckStatus]
    \cup [cmd : {"CONTACT_ADD", "CONTACT_REMOVE"}, contact : CodecStrings]
    \cup [cmd : {"AVATAR_GET"}, username : CodecStrings]
    \cup [cmd : {"CONTACT_LIST"},
          contacts : {<<>>,
                      <<[username |-> Cp.ann, status |-> 0]>>,
                      <<[username |-> Cp.ann, status |-> 1], [username |-> Cp.empty, status |-> 0],
                        [username |-> Cp.euro, status |-> 1]>>}]
    \cup [cmd : {"USER_SEARCH"}, query : CodecStrings \cup {Cp.long}]
    \cup [cmd : {"USER_SEARCH_RES"},
          users : {<<>>, <<Cp.ann>>, <<Cp.empty, Cp.accent, Cp.emoji>>, <<Cp.long, Cp.ann>>}]
    \cup [cmd : {"PRESENCE"}, username : {Cp.empty, Cp.ann, Cp.euro},
          status : EnumValues.PresenceStatus]
    \cup [cmd : {"RESPONSE"}, action : EnumValues.ActionCode, code : EnumValues.ResponseCode,
          message : {Cp.empty, Cp.accent}]
    \cup [cmd : {"ERROR"}, message : CodecStrings \cup {Cp.long}]
    \cup [cmd : {"EARTHQUAKE_SEND"}, to : {Cp.empty, Cp.ann}, intensity : {0, 5, 255}]
    \cup [cmd : {"EARTHQUAKE_RECV"}, from_user : {Cp.empty, Cp.ann}, intensity : {0, 5, 255}]
    \cup [cmd : {"AVATAR_SET"}, avatar_data : CodecBlobs]
    \cup [cmd : {"AVATAR_DATA"}, username : {Cp.empty, Cp.ann, Cp.long}, avatar_data : CodecBlobs]

\* messages struct.pack refuses: a string of 65536 bytes, a number above 255
UnpackableSamples ==
    {[cmd |-> "ERROR", message |-> Cp.tooLong],
     [cmd |-> "EARTHQUAKE_SEND", to |-> Cp.ann, intensity |-> 256]}

\* frames whose header is sound and whose payload ends early
OverrunFrames ==
    \* a string's length prefix runs past the payload, nothing is read after it
    {FrameOf(PROTOCOL_MAGIC, PROTOCOL_VERSION, Command.CONTACT_ADD, 5, <<0, 10, 97, 110, 110>>),
     FrameOf(PROTOCOL_MAGIC, PROTOCOL_VERSION, Command.LOGIN, 9,
             write_string(Cp.ann) \o <<0, 8, 112, 119>>),
     FrameOf(PROTOCOL_MAGIC, PROTOCOL_VERSION, Command.ERROR, 2, <<255, 255>>),
    \* a blob's length prefix runs past the payload
     FrameOf(PROTOCOL_MAGIC, PROTOCOL_VERSION, Command.AVATAR_SET, 6, <<0, 0, 0, 5, 1, 2>>),
     FrameOf(PROTOCOL_MAGIC, PROTOCOL_VERSION, Command.AVATAR_DATA, 10,
             write_string(Cp.ann) \o <<0, 1, 0, 0, 9>>),
     FrameOf(PROTOCOL_MAGIC, PROTOCOL_VERSION, Command.AVATAR_SET, 5, <<255, 255, 255, 255, 1>>),
    \* a string's length prefix runs past the payload and another field follows
     FrameOf(PROTOCOL_MAGIC, PROTOCOL_VERSION, Command.LOGIN, 5, <<0, 10, 97, 110, 110>>),
     FrameOf(PROTOCOL_MAGIC, PROTOCOL_VERSION, Command.PRESENCE, 4, <<0, 3, 97, 110>>),
     FrameOf(PROTOCOL_MAGIC, PROTOCOL_VERSION, Command.USER_SEARCH_RES, 6, <<0, 2, 0, 5, 97, 110>>),
    \* the payload is shorter than the fields of the command
     FrameOf(PROTOCOL_MAGIC, PROTOCOL_VERSION, Command.LOGIN, 5, write_string(Cp.ann)),
     FrameOf(PROTOCOL_MAGIC, PROTOCOL_VERSION, Command.CONTACT_ADD, 0, <<>>),
     FrameOf(PROTOCOL_MAGIC, PROTOCOL_VERSION, Command.CONTACT_ADD, 1, <<0>>),
     FrameOf(PROTOCOL_MAGIC, PROTOCOL_VERSION, Command.MSG_ACK, 4, write_string(Cp.hi)),
     FrameOf(PROTOCOL_MAGIC, PROTOCOL_VERSION, Command.AVATAR_SET, 3, <<0, 0, 0>>),
     FrameOf(PROTOCOL_MAGIC, PROTOCOL_VERSION, Command.CONTACT_LIST, 2, <<0, 1>>),
     FrameOf(PROTOCOL_MAGIC, PROTOCOL_VERSION, Command.USER_SEARCH_RES, 5, <<0, 2, 0, 1, 97>>)}

\* the byte strings decode_message is called with; in the first the header declares
\* more payload than the data holds
ReceivedFrames ==
    {FrameOf(PROTOCOL_MAGIC, PROTOCOL_VERSION, Command.CONTACT_ADD, 12, <<0, 10, 97, 110, 110>>)}
    \cup OverrunFrames \cup FrameInputs

\* a call of the codec changes nothing of the server
CodecStep(op, m, raw) ==
    /\ last' = [Step(op, None, m, FALSE) EXCEPT !.raw = raw]
    /\ wrote' = <<>>
    /\ UNCHANGED <<wire, frames, store, clients, pc, session_fields, sock, locals, history>>

\* encode_message of the message at hand returns the frame
EncodeMessage ==
    /\ last.op = "message"
    /\ ~EncodeRaises(last.msg)
    /\ CodecStep("encode_message", last.msg, encode_message(last.msg))

\* encode_message of the message at hand raises struct.error
EncodeFails ==
    /\ last.op = "message"
    /\ EncodeRaises(last.msg)
    /\ CodecStep("encode_raises", Raise("struct.error"), <<>>)

\* decode_message of the frame encode_message has just returned
DecodeEncoded ==
    /\ last.op = "encode_message"
    /\ CodecStep("decode_message", decode_message(last.raw), last.raw)

\* decode_message of the bytes at hand
DecodeReceived ==
    /\ last.op = "bytes"
    /\ CodecStep("decode_received", decode_message(last.raw), last.raw)

\* --------------------------------------------------------------- Next
\* connection life cycle: accept, login, logout, loss of the connection, cleanup
Core ==
    \/ \E s \in Sessions : Accept(s)
    \/ \E s \in Sessions, m \in LoginInputs : LoginCheck(s, m)
    \/ \E s \in Sessions, dberr \in BOOLEAN : LoginAuth(s, dberr)
    \/ \E s \in Sessions : LoginReply(s)
    \/ \E s \in Sessions : LoginBroadcast(s)
    \/ \E s \in Sessions : HandleLogout(s)
    \/ \E s \in Sessions : Disconnect(s)
    \/ \E s \in Sessions : CleanupRemove(s)
    \/ \E s \in Sessions : CleanupBroadcast(s)
    \/ \E s \in Sessions : CleanupClose(s)

Network == \E s \in Sessions : PeerReset(s)

Messaging ==
    \/ \E s \in Sessions, m \in SendMsgInputs : HandleSendMsg(s, m)
    \/ \E s \in Sessions : MsgRoute(s)
    \/ \E s \in Sessions : MsgAck(s)

Signals ==
    \/ \E s \in Sessions, m \in EarthquakeInputs : HandleEarthquake(s, m)
    \/ \E s \in Sessions : EarthquakeRoute(s)

Accounts ==
    \/ \E s \in Sessions, m \in RegisterInputs, dberr \in BOOLEAN : HandleRegister(s, m, dberr)
    \/ \E s \in Sessions, m \in UnknownInputs : HandleUnknown(s, m)

Contacts ==
    \/ \E s \in Sessions, m \in ContactInputs, dberr \in BOOLEAN : HandleAddContact(s, m, dberr)
    \/ \E s \in Sessions, m \in ContactInputs, dberr \in BOOLEAN : HandleRemoveContact(s, m, dberr)
    \/ \E s \in Sessions, dberr \in BOOLEAN : HandleGetContacts(s, dberr)
    \/ \E s \in Sessions, dberr \in BOOLEAN : ContactsRefresh(s, dberr)

Directory ==
    \/ \E s \in Sessions, m \in SearchInputs, dberr \in BOOLEAN : HandleSearchUser(s, m, dberr)
    \/ \E s \in Sessions, m \in AvatarSetInputs, dberr \in BOOLEAN : HandleAvatarSet(s, m, dberr)
    \/ \E s \in Sessions, m \in AvatarGetInputs, dberr \in BOOLEAN : HandleAvatarGet(s, m, dberr)

Framing == \E s \in Sessions : ReadFrame(s)

Next ==
    Core \/ Network \/ Messaging \/ Signals \/ Accounts \/ Contacts \/ Directory \/ Framing

Spec == Init /\ [][Next]_vars

NextAuth == Core
SpecAuth == Init /\ [][NextAuth]_vars

NextMsg == Core \/ Network \/ Messaging
SpecMsg == Init /\ [][NextMsg]_vars

\* the store of an installation with a third registered user
PresenceUsers == Append(InitUsers, [username |-> Cat, password |-> Pass])

InitPresence ==
    /\ users = PresenceUsers
    /\ contacts = {}
    /\ avatars = [i \in DOMAIN PresenceUsers |-> -1]
    /\ clients = <<>>
    /\ pc = [s \in Sessions |-> "idle"]
    /\ username = [s \in Sessions |-> NoName]
    /\ user_id = [s \in Sessions |-> None]
    /\ authenticated = [s \in Sessions |-> FALSE]
    /\ sock = [s \in Sessions |-> "closed"]
    /\ msg = [s \in Sessions |-> NoMsg]
    /\ recipient_session = [s \in Sessions |-> None]
    /\ delivered = [s \in Sessions |-> FALSE]
    /\ wrote = <<>>
    /\ last = Step("init", None, NoMsg, FALSE)
    /\ logins = [s \in Sessions |-> {}]
    /\ offlines = [s \in Sessions |-> <<>>]
    /\ frames = 0
    /\ lock = [s \in Sessions |-> None]
    /\ tx = [s \in Sessions |-> NoSend]
    /\ stream = [s \in Sessions |-> <<>>]
    /\ clients_lock = [s \in Sessions |-> "out"]

\* the threads' calls of ClientSession.send, piece by piece
NextSend ==
    \/ \E s \in Sessions : Accept(s)
    \/ \E w, t \in Sessions : SendCall(w, t)
    \/ \E w \in Sessions : SendAcquire(w)
    \/ \E w \in Sessions : SendAll(w)
    \/ \E w \in Sessions : SendReturn(w)
    \/ \E t \in Sessions : SendReset(t)

SpecSend == Init /\ [][NextSend]_vars

\* connection life cycle with peers that send broken frames
NextFraming == Core \/ Framing
SpecFraming == Init /\ [][NextFraming]_vars

\* the codec by itself: a message is encoded and the frame decoded, or bytes that
\* were received are decoded
InitCodec ==
    /\ users = InitUsers
    /\ contacts = {}
    /\ avatars = [i \in DOMAIN InitUsers |-> -1]
    /\ clients = <<>>
    /\ pc = [s \in Sessions |-> "idle"]
    /\ username = [s \in Sessions |-> NoName]
    /\ user_id = [s \in Sessions |-> None]
    /\ authenticated = [s \in Sessions |-> FALSE]
    /\ sock = [s \in Sessions |-> "closed"]
    /\ msg = [s \in Sessions |-> NoMsg]
    /\ recipient_session = [s \in Sessions |-> None]
    /\ delivered = [s \in Sessions |-> FALSE]
    /\ wrote = <<>>
    /\ last \in {Step("message", None, m, FALSE) : m \in CodecSamples \cup UnpackableSamples}
               \cup {[Step("bytes", None, NoMsg, FALSE) EXCEPT !.raw = data] :
                        data \in ReceivedFrames}
    /\ logins = [s \in Sessions |-> {}]
    /\ offlines = [s \in Sessions |-> <<>>]
    /\ frames = 0
    /\ lock = [s \in Sessions |-> None]
    /\ tx = [s \in Sessions |-> NoSend]
    /\ stream = [s \in Sessions |-> <<>>]
    /\ clients_lock = [s \in Sessions |-> "out"]

Codec == EncodeMessage \/ EncodeFails \/ DecodeEncoded \/ DecodeReceived

SpecCodec == InitCodec /\ [][Codec]_vars

\* connection life cycle with peers that reset their connections
NextPresence == Core \/ Network
SpecPresence == InitPresence /\ [][NextPresence]_vars

\* the contact list of a user who is logged in: the state after session 1 was
\* accepted and logged in as ann, in an installation with a third registered user
\* where ann has the contact bob (frames counts the frames read from here on)
InitContacts ==
    /\ users = PresenceUsers
    /\ contacts = {<<1, 2>>}
    /\ avatars = [i \in DOMAIN PresenceUsers |-> -1]
    /\ clients = LoginInsert(<<>>, Ann, 1)
    /\ pc = [s \in Sessions |-> IF s = 1 THEN "recv" ELSE "idle"]
    /\ username = [s \in Sessions |-> IF s = 1 THEN Ann ELSE NoName]
    /\ user_id = [s \in Sessions |-> IF s = 1 THEN 1 ELSE None]
    /\ authenticated = [s \in Sessions |-> s = 1]
    /\ sock = [s \in Sessions |-> IF s = 1 THEN "open" ELSE "closed"]
    /\ msg = [s \in Sessions |-> NoMsg]
    /\ recipient_session = [s \in Sessions |-> None]
    /\ delivered = [s \in Sessions |-> FALSE]
    /\ wrote = <<>>
    /\ last = StepHeld("login_bcast", 1, [cmd |-> "LOGIN", username |-> Ann, password |-> Pass])
    /\ logins = [s \in Sessions |-> IF s = 1 THEN {Ann} ELSE {}]
    /\ offlines = [s \in Sessions |-> <<>>]
    /\ frames = 0
    /\ lock = [s \in Sessions |-> None]
    /\ tx = [s \in Sessions |-> NoSend]
    /\ stream = [s \in Sessions |-> <<>>]
    /\ clients_lock = [s \in Sessions |-> "out"]

NextContacts == Core \/ Contacts
SpecContacts == InitContacts /\ [][NextContacts]_vars

\* connection life cycle with earthquake signals and peers that reset
NextSignals == Core \/ Network \/ Signals
SpecSignals == Init /\ [][NextSignals]_vars

\* connection life cycle with registration, user search and avatars
NextDirectory == Core \/ Accounts \/ Directory
SpecDirectory == Init /\ [][NextDirectory]_vars

\* the threads at the two kinds of lock: sends, inside and outside the blocks that
\* hold clients_lock
NextLocks ==
    \/ NextSend
    \/ \E w \in Sessions : EnterRegistryLock(w)
    \/ \E w \in Sessions : AcquireRegistryLock(w)
    \/ \E w \in Sessions : ReleaseRegistryLock(w)

SpecLocks == Init /\ [][NextLocks]_vars


\* ================================================================ claims
\* worker s is in its read loop (accepted, and _cleanup_session not yet entered)
InLoop(s) == pc[s] \notin {"idle", "cleanup", "cleanup_bcast", "cleanup_close", "done"}

\* no worker is inside a handler or inside _cleanup_session
Quiescent == \A s \in Sessions : pc[s] \in {"idle", "recv", "done"}

\* the registry has the entry name -> s
Registered(name, s) == \E i \in DOMAIN clients : clients[i] = [name |-> name, sess |-> s]

\* worker s takes a step in which it reads a frame handled as op
Reads(s, op) == pc[s] = "recv" /\ frames' = frames + 1 /\ last'.s = s /\ last'.op = op

\* worker s takes the step that leaves position p
Leaves(s, p) == pc[s] = p /\ pc'[s] # p

\* C1: of two sessions in their read loops, at most one holds a LOGIN success reply
\* for a username it is authenticated as (two concurrent logins for one username:
\* exactly one succeeds).
C1_RegistryExclusivity ==
    \A s1, s2 \in Sessions :
        (s1 # s2 /\ InLoop(s1) /\ InLoop(s2) /\ authenticated[s1] /\ authenticated[s2]
         /\ username[s1] \in logins[s1] /\ username[s2] \in logins[s2])
        => username[s1] # username[s2]

\* C2: outside login and cleanup steps, a username is a key of the registry if and
\* only if a session in its read loop is authenticated as that username.
C2_RegistryMembership ==
    Quiescent =>
        \A u \in Keys(clients) \cup {username[s] : s \in Sessions} :
            Has(clients, u) <=>
                \E s \in Sessions : pc[s] = "recv" /\ authenticated[s] /\ username[s] = u

\* C3: a registry entry u -> S stays u -> S in every step, except the removal step of
\* S's own cleanup.
C3_NoEviction ==
    [][\A i \in DOMAIN clients :
          \/ Get(clients', clients[i].name) = clients[i].sess
          \/ Leaves(clients[i].sess, "cleanup")]_vars

\* C4: when a worker has finished, every username a LOGIN success reply was written
\* for on its session has no registry entry left for that session and got exactly one
\* OFFLINE broadcast.
C4_CleanupOncePerLogin ==
    \A s \in Sessions :
        pc[s] = "done" =>
            \A u \in logins[s] :
                /\ ~Registered(u, s)
                /\ Cardinality({i \in DOMAIN offlines[s] : offlines[s][i] = u}) = 1

GatedOps == {"logout", "send_msg", "add_contact", "remove_contact", "get_contacts",
             "search", "earthquake", "avatar_set", "avatar_get"}

\* C5: a command other than register and login read on an unauthenticated session is
\* answered with the error "Not authenticated" and the worker is back at the top of
\* its read loop.
C5_AuthGating ==
    (last.op \in GatedOps /\ ~authenticated[last.s]) =>
        /\ wrote = <<[to |-> last.s, frame |-> build_error("Not authenticated"), ok |-> TRUE]>>
        /\ pc[last.s] = "recv"

\* C6: the lookup takes the registry's session for the trimmed recipient; the forward
\* step writes exactly one receive-message event to that session, with the sender's
\* username and the request's content and msg_id; the ack goes to the sender with the
\* request's msg_id, and is DELIVERED if and only if the forward write succeeded.
C6_DeliveryToOnlineRecipient ==
    [][\A s \in Sessions :
          /\ (Reads(s, "send_msg") /\ pc'[s] = "msg_route") =>
                /\ msg'[s] = last'.msg
                /\ recipient_session'[s] = Get(clients, strip(last'.msg.to))
          /\ (Leaves(s, "msg_route") /\ recipient_session[s] # None) =>
                /\ wrote' = <<[to |-> recipient_session[s],
                              frame |-> [cmd |-> "MSG_RECEIVE", from_user |-> username[s],
                                         content |-> msg[s].content, msg_id |-> msg[s].msg_id,
                                         timestamp |-> Now],
                              ok |-> sock[recipient_session[s]] = "open"]>>
                /\ delivered'[s] = wrote'[1].ok
                /\ pc'[s] = "msg_ack"
                /\ msg'[s] = msg[s]
          /\ (pc'[s] = "msg_ack" /\ pc[s] # "msg_ack") =>
                (pc[s] = "msg_route" /\ recipient_session[s] # None)
          /\ Leaves(s, "msg_ack") =>
                /\ Len(wrote') = 1
                /\ wrote'[1].to = s
                /\ wrote'[1].frame.cmd = "MSG_ACK"
                /\ wrote'[1].frame.msg_id = msg[s].msg_id
                /\ wrote'[1].frame.status \in {"DELIVERED", "DELIVERY_FAILED"}
                /\ wrote'[1].frame.status = "DELIVERED" <=> delivered[s]]_vars

C6_Witness ==
    /\ last.op = "msg_ack"
    /\ wrote[1].frame.status = "DELIVERED"
    /\ wrote[1].ok
    /\ strip(last.msg.to) # username[last.s]

\* C7: a send-message whose recipient is not a key of the registry at the lookup is
\* acknowledged USER_OFFLINE to the sender and changes nothing else; a receive-message
\* event is only ever written by the forward step of a request whose lookup found a
\* session.
C7_AbsentRecipient ==
    [][/\ \A s \in Sessions :
             /\ (Reads(s, "send_msg") /\ pc'[s] = "msg_route") =>
                   (recipient_session'[s] = None <=> ~Has(clients, strip(last'.msg.to)))
             /\ (Leaves(s, "msg_route") /\ recipient_session[s] = None) =>
                   /\ wrote' = <<[to |-> s,
                                 frame |-> [cmd |-> "MSG_ACK", msg_id |-> msg[s].msg_id,
                                            status |-> "USER_OFFLINE"],
                                 ok |-> sock[s] = "open"]>>
                   /\ pc'[s] = "recv"
                   /\ msg'[s] = NoMsg
                   /\ UNCHANGED <<store, clients, session_fields, sock, history>>
       /\ \A i \in DOMAIN wrote' :
             wrote'[i].frame.cmd = "MSG_RECEIVE" =>
                 \E s \in Sessions :
                     /\ Leaves(s, "msg_route")
                     /\ recipient_session[s] # None
                     /\ wrote'[i].to = recipient_session[s]
                     /\ wrote'[i].frame.msg_id = msg[s].msg_id]_vars

C7_Witness ==
    /\ last.op = "msg_route"
    /\ wrote[1].frame.cmd = "MSG_ACK"
    /\ wrote[1].frame.status = "USER_OFFLINE"
    /\ UserExists(strip(last.msg.to))

\* C8: a failed forward write makes delivered false and the worker goes on to the ack
\* (no exception); the ack is DELIVERY_FAILED, written once to the sender; the sender
\* stays in its read loop; neither step changes the registry, any session's fields or
\* any socket, and nothing more is written to the recipient.
C8_DeliveryFailureIsStatus ==
    [][\A s \in Sessions :
          /\ (Leaves(s, "msg_route") /\ recipient_session[s] # None
              /\ sock[recipient_session[s]] # "open") =>
                /\ delivered'[s] = FALSE
                /\ pc'[s] = "msg_ack"
                /\ Len(wrote') = 1 /\ ~wrote'[1].ok
                /\ UNCHANGED <<store, clients, session_fields, sock>>
                /\ \A t \in Sessions \ {s} : pc'[t] = pc[t]
          /\ (Leaves(s, "msg_ack") /\ ~delivered[s]) =>
                /\ wrote' = <<[to |-> s,
                              frame |-> [cmd |-> "MSG_ACK", msg_id |-> msg[s].msg_id,
                                         status |-> "DELIVERY_FAILED"],
                              ok |-> sock[s] = "open"]>>
                /\ pc'[s] = "recv"
                /\ UNCHANGED <<store, clients, session_fields, sock>>
                /\ \A t \in Sessions \ {s} : pc'[t] = pc[t]]_vars

C8_Witness ==
    /\ last.op = "msg_ack"
    /\ wrote[1].frame.status = "DELIVERY_FAILED"
    /\ wrote[1].ok
    /\ pc[last.s] = "recv"

\* the recipient, trimmed of whitespace, is empty, or the content is empty
EmptyRecipientOrContent(m) ==
    \/ \A i \in DOMAIN m.to : m.to[i] \in Whitespace
    \/ Len(m.content) = 0

\* C9: a send-message on an authenticated session with an empty (trimmed) recipient or
\* empty content is answered, in the step that reads it, with one INVALID_MESSAGE ack
\* carrying its msg_id, written to the sender only, without the registry lock.
C9_InvalidMessage ==
    [][\A s \in Sessions :
          (Reads(s, "send_msg") /\ authenticated[s] /\ EmptyRecipientOrContent(last'.msg)) =>
              /\ wrote' = <<[to |-> s,
                            frame |-> [cmd |-> "MSG_ACK", msg_id |-> last'.msg.msg_id,
                                       status |-> "INVALID_MESSAGE"],
                            ok |-> TRUE]>>
              /\ ~last'.locked
              /\ pc'[s] = "recv"
              /\ recipient_session'[s] = None
              /\ UNCHANGED <<store, clients, session_fields, sock, history>>]_vars

C9_Witness ==
    /\ last.op = "send_msg"
    /\ authenticated[last.s]
    /\ last.msg.to = Blank
    /\ last.msg.content # <<>>
    /\ wrote[1].frame.status = "INVALID_MESSAGE"

\* C10: the ONLINE broadcast of a login writes one presence event to each session
\* registered under another name, and none to the session that logged in.
C10_PresenceFanOutOnLogin ==
    last.op = "login_bcast" =>
        /\ \A i \in DOMAIN wrote : wrote[i].to # last.s
        /\ \A i, j \in DOMAIN wrote : wrote[i].to = wrote[j].to => i = j
        /\ {wrote[i].to : i \in DOMAIN wrote}
             = {clients[i].sess : i \in {j \in DOMAIN clients : clients[j].sess # last.s}}
        /\ \A i \in DOMAIN wrote :
             wrote[i].frame = [cmd |-> "PRESENCE", username |-> username[last.s],
                               status |-> "ONLINE"]

\* the writes a presence broadcast for name u makes against registry d: one attempt
\* for each entry under another name, in the registry's order
PresenceAttempts(d, u, status) ==
    LET peers == SelectSeq(d, LAMBDA e : e.name # u) IN
    [i \in DOMAIN peers |->
        [to |-> peers[i].sess,
         frame |-> [cmd |-> "PRESENCE", username |-> u, status |-> status],
         ok |-> sock[peers[i].sess] = "open"]]

\* C11: when an authenticated session leaves, its cleanup first removes the registry
\* entry of its username, then writes one OFFLINE presence event naming it to every
\* session registered at that time under another name, and only then closes the
\* socket; at the broadcast the registry no longer maps the username to the session.
C11_PresenceFanOutOnDeparture ==
    [][\A s \in Sessions :
          /\ (Leaves(s, "cleanup") /\ authenticated[s]) =>
                /\ pc'[s] = "cleanup_bcast"
                /\ ~Has(clients', username[s])
          /\ Leaves(s, "cleanup_bcast") =>
                /\ ~Registered(username[s], s)
                /\ wrote' = PresenceAttempts(clients, username[s], "OFFLINE")
                /\ pc'[s] = "cleanup_close"
          /\ (pc'[s] = "done" /\ pc[s] # "done" /\ authenticated[s]) =>
                pc[s] = "cleanup_close"
          /\ (pc'[s] = "cleanup_close" /\ pc[s] # "cleanup_close") =>
                pc[s] = "cleanup_bcast"]_vars

C11_Witness ==
    /\ last.op = "cleanup_bcast"
    /\ Len(wrote) = 1
    /\ wrote[1].to # last.s
    /\ wrote[1].ok
    /\ wrote[1].frame = [cmd |-> "PRESENCE", username |-> username[last.s],
                         status |-> "OFFLINE"]

C13_NoIOUnderRegistryLock == last.held => wrote = <<>>

\* the usernames the registry maps to session s
NamesOf(d, s) == {d[i].name : i \in {j \in DOMAIN d : d[j].sess = s}}

\* a step of worker s inside _handle_login
LoginStep(s) ==
    /\ last'.s = s
    /\ last'.op \in {"login", "login_auth", "login_reply", "login_bcast"}

\* C15: a login step of an already authenticated session changes neither the
\* session's username nor its user id nor the registry's entries for the session.
C15_UsernameSetOnce ==
    [][\A s \in Sessions :
          (authenticated[s] /\ LoginStep(s)) =>
              /\ username'[s] = username[s]
              /\ user_id'[s] = user_id[s]
              /\ NamesOf(clients', s) = NamesOf(clients, s)]_vars

\* C16: every session the registry holds is authenticated and has a username; a
\* session that is not authenticated is no value of the registry.
C16_OnlyAuthenticatedRegistered ==
    /\ \A i \in DOMAIN clients :
          /\ authenticated[clients[i].sess]
          /\ username[clients[i].sess] # NoName
          /\ username[clients[i].sess] # <<>>
    /\ \A s \in Sessions : ~authenticated[s] => NamesOf(clients, s) = {}

C16_Witness ==
    /\ last.op = "login_auth"
    /\ ~authenticated[last.s]
    /\ wrote[1].frame.code = FAIL
    /\ clients # <<>>

\* the credentials of a login are those of a stored user
GoodCredentials(m) ==
    \E i \in DOMAIN users :
        users[i].username = strip(m.username) /\ users[i].password = m.password

\* C20: a login for a username that is a key of the registry, for an unknown user or
\* with a wrong password is answered with exactly one LOGIN failure reply, written to
\* the requester and to nobody else, and the worker is back in its read loop with no
\* broadcast; the session's fields, the registry and the store are unchanged, and a
\* requester that was unauthenticated stays unauthenticated with no username.
C20_FailedLoginChangesNothing ==
    [][\A s \in Sessions :
          /\ (Reads(s, "login") /\ Has(clients, strip(last'.msg.username))) =>
                /\ wrote' = <<[to |-> s,
                              frame |-> [cmd |-> "RESPONSE", action |-> "LOGIN",
                                         code |-> "FAIL",
                                         message |-> "User already logged in"],
                              ok |-> TRUE]>>
                /\ pc'[s] = "recv"
                /\ UNCHANGED <<store, clients, session_fields, sock, history>>
          /\ (Leaves(s, "login_auth") /\ ~GoodCredentials(msg[s])) => pc'[s] = "recv"
          /\ (Leaves(s, "login_auth") /\ pc'[s] = "recv") =>
                /\ Len(wrote') = 1
                /\ wrote'[1].to = s
                /\ wrote'[1].frame.cmd = "RESPONSE"
                /\ wrote'[1].frame.action = "LOGIN"
                /\ wrote'[1].frame.code = "FAIL"
                /\ UNCHANGED <<store, clients, session_fields, sock, history>>
          /\ (LoginStep(s) /\ pc'[s] = "recv" /\ last'.op # "login_bcast"
              /\ ~authenticated[s]) =>
                /\ ~authenticated'[s]
                /\ username'[s] = NoName
                /\ user_id'[s] = None
                /\ NamesOf(clients', s) = {}]_vars

C20_Witness ==
    /\ last.op = "login_auth"
    /\ ~authenticated[last.s]
    /\ username[last.s] = NoName
    /\ wrote = <<[to |-> last.s,
                  frame |-> build_response("LOGIN", FAIL, "Invalid password"),
                  ok |-> TRUE]>>
    /\ clients # <<>>

\* the pieces on session t's socket are whole frames one after the other, with at
\* most one unfinished frame at the end
Unbroken(q) ==
    \A i \in DOMAIN q :
        /\ q[i].part > 1 =>
              (i > 1 /\ q[i - 1] = [by |-> q[i].by, n |-> q[i].n, part |-> q[i].part - 1])
        /\ (q[i].part = 1 /\ i > 1) => q[i - 1].part = FrameParts

\* C14: for every session at most one thread is inside a socket write, that thread
\* holds the session's lock from the first piece of the frame to the last, and the
\* frames on the session's outbound stream are not interleaved.
C14_WriteSerialization ==
    \A t \in Sessions :
        /\ Cardinality({w \in Sessions : tx[w].at = "in" /\ tx[w].to = t}) <= 1
        /\ \A w \in Sessions : (tx[w].at = "in" /\ tx[w].to = t) => lock[t] = w
        /\ lock[t] # None => (tx[lock[t]].at = "in" /\ tx[lock[t]].to = t)
        /\ Unbroken(stream[t])

C14_Witness ==
    \E t, w1, w2 \in Sessions :
        /\ w1 # w2
        /\ tx[w1].to = t /\ tx[w1].at = "in" /\ tx[w1].part = 1
        /\ tx[w2].to = t /\ tx[w2].at = "wait"
        /\ Len(stream[t]) = FrameParts + 1
        /\ stream[t][1].by = w2


\* C18: decoding the frame encode_message made of a message gives the message back
C18_CodecRoundTrip ==
    [][(last.op = "encode_message" /\ last'.op = "decode_message") => last'.msg = last.msg]_vars

\* a message with a string of 65535 bytes of three-byte characters has come back
C18_Witness ==
    /\ last.op = "decode_message"
    /\ last.msg.cmd = "MSG_SEND"
    /\ last.msg.content = Cp.longEuro
    /\ Len(last.raw) > 65535

\* C19: decode_message raises an error for a payload that ends before its fields do
C19_DecodeRejectsOverrun ==
    (last.op = "decode_received" /\ last.raw \in OverrunFrames) => last.msg.cmd = "RAISE"

\* the header values of what a connection delivered
DeclaredLength(f) == read_uint32(f, 5).val
CommandCode(f) == f[4] * 256 + f[5]

\* what a connection delivered is a truncated header, or a header with a wrong
\* magic, an unsupported version, a payload length above the maximum or a command
\* code that is no command, or ends before the payload does
FramingError(f) ==
    \/ Len(f) < HEADER_SIZE
    \/ /\ Len(f) >= HEADER_SIZE
       /\ \/ SubSeq(f, 1, 2) # PROTOCOL_MAGIC
          \/ f[3] # PROTOCOL_VERSION
          \/ DeclaredLength(f) > MAX_MESSAGE_SIZE
          \/ \A c \in DOMAIN Command : Command[c] # CommandCode(f)
          \/ Len(f) - HEADER_SIZE < DeclaredLength(f)

\* C17: when a connection delivers a frame with a framing error, the server writes
\* nothing, no handler gets a message, and the read loop is left for the cleanup,
\* with the store, the registry and the session as they were
C17_FramingErrorsFatalAndSilent ==
    [][\A s \in Sessions :
          (pc[s] = "recv" /\ last'.s = s /\ last'.raw # <<>> /\ FramingError(last'.raw))
          => /\ wrote' = <<>>
             /\ last'.op = "bad_frame"
             /\ last'.msg = NoMsg
             /\ pc'[s] = "cleanup"
             /\ msg'[s] = NoMsg
             /\ UNCHANGED <<store, clients, session_fields, sock>>]_vars

\* an authenticated session has read a frame of an unsupported version and is on
\* its way to the cleanup without a frame written
C17_Witness ==
    /\ last.op = "bad_frame"
    /\ Len(last.raw) >= HEADER_SIZE
    /\ last.raw[3] # PROTOCOL_VERSION
    /\ authenticated[last.s]
    /\ pc[last.s] = "cleanup"
    /\ wrote = <<>>

\* worker s has left its read loop for good
Ended(s) == pc[s] \in {"cleanup", "cleanup_bcast", "cleanup_close", "done"}

\* C21: the step that reads a logout on an authenticated session writes exactly the
\* LOGOUT success reply to that session, removes nothing from the registry, comes
\* before every OFFLINE broadcast of the session and leaves the read loop; a LOGOUT
\* reply is written by no other step; a worker that has left its loop never reads
\* another frame and never returns to the loop.
C21_LogoutTerminalAndAcknowledged ==
    [][\A s \in Sessions :
          /\ (Reads(s, "logout") /\ authenticated[s]) =>
                /\ wrote' = <<[to |-> s,
                              frame |-> build_response("LOGOUT", SUCCESS, "Goodbye!"),
                              ok |-> sock[s] = "open"]>>
                /\ clients' = clients
                /\ offlines[s] = <<>> /\ offlines'[s] = <<>>
                /\ pc'[s] = "cleanup"
          /\ (\E i \in DOMAIN wrote' : wrote'[i].frame.cmd = "RESPONSE"
                                       /\ wrote'[i].frame.action = "LOGOUT"
                                       /\ wrote'[i].to = s) =>
                (Reads(s, "logout") /\ Len(wrote') = 1)
          /\ offlines'[s] # offlines[s] => Ended(s)
          /\ (clients' # clients /\ last'.s = s /\ last'.op = "cleanup") => Ended(s)
          /\ Ended(s) =>
                /\ Ended(s)'
                /\ ~(last'.s = s /\ frames' # frames)]_vars

C21_Witness ==
    /\ last.op = "logout"
    /\ authenticated[last.s]
    /\ Len(wrote) = 1 /\ wrote[1].ok
    /\ Registered(username[last.s], last.s)
    /\ pc[last.s] = "cleanup"

\* the entries of the contact lists written by the step
ListedEntries ==
    UNION {{wrote'[i].frame.contacts[k] : k \in DOMAIN wrote'[i].frame.contacts} :
              i \in {j \in DOMAIN wrote' : wrote'[j].frame.cmd = "CONTACT_LIST"}}

\* C22: every entry of a contact list written by a step is ONLINE if and only if its
\* username is a key of the registry the step starts in; a contact that is listed
\* ONLINE has a connection that logged in as it and has not finished its teardown.
C22_LiveContactPresence ==
    [][\A e \in ListedEntries :
          /\ e.status \in {ONLINE, OFFLINE}
          /\ e.status = ONLINE <=> Has(clients, e.username)
          /\ e.status = ONLINE =>
                \E t \in Sessions : /\ pc[t] \notin {"idle", "done"}
                                     /\ authenticated[t]
                                     /\ e.username \in logins[t] \cup {username[t]}]_vars

\* C23: an add or remove read on an authenticated session is answered with exactly
\* one response for that command. On success the edge set changes by exactly the
\* edge caller -> target and the next thing written is the caller's full contact
\* list; on failure (add: target not found, self-add, edge exists; remove: edge
\* absent; and every other failure) the edge set is unchanged and no list follows.
C23_ContactMutationReplies ==
    [][\A s \in Sessions :
          /\ ((Reads(s, "add_contact") \/ Reads(s, "remove_contact")) /\ authenticated[s]) =>
                LET add == last'.op = "add_contact"
                    target == get_user_id(strip(last'.msg.contact))
                    edge == <<user_id[s], target>>
                    refused == IF add
                               THEN target = None \/ target = user_id[s] \/ edge \in contacts
                               ELSE edge \notin contacts
                IN /\ Len(wrote') = 1
                   /\ wrote'[1].to = s
                   /\ wrote'[1].frame.cmd = "RESPONSE"
                   /\ wrote'[1].frame.action = IF add THEN "ADD_CONTACT" ELSE "REMOVE_CONTACT"
                   /\ wrote'[1].frame.code \in {SUCCESS, FAIL}
                   /\ refused => wrote'[1].frame.code = FAIL
                   /\ IF wrote'[1].frame.code = SUCCESS
                      THEN /\ contacts' = IF add THEN contacts \cup {edge} ELSE contacts \ {edge}
                           /\ contacts' # contacts
                           /\ pc'[s] = "contacts_refresh"
                      ELSE /\ contacts' = contacts
                           /\ pc'[s] = "recv"
          /\ Leaves(s, "contacts_refresh") =>
                /\ wrote' = <<[to |-> s,
                              frame |-> build_contact_list(
                                            ContactInfos(get_contacts(user_id[s]), clients)),
                              ok |-> sock[s] = "open"]>>
                /\ pc'[s] = "recv"
                /\ contacts' = contacts
          /\ (\E i \in DOMAIN wrote' : wrote'[i].frame.cmd = "CONTACT_LIST" /\ wrote'[i].to = s) =>
                (Leaves(s, "contacts_refresh") \/ Reads(s, "get_contacts"))]_vars

\* C24: an earthquake request read on an authenticated session looks its trimmed
\* recipient up in the registry. If a session is found, the next step writes exactly
\* one signal event to that session, with the sender's username and the intensity
\* brought into 1..10; if none is found, the next step writes exactly one error to
\* the sender. A signal event is written by no other step.
C24_SignalForwarding ==
    [][\A s \in Sessions :
          /\ (Reads(s, "earthquake") /\ authenticated[s]) =>
                /\ recipient_session'[s] = Get(clients, strip(last'.msg.to))
                /\ msg'[s] = last'.msg
                /\ wrote' = <<>>
                /\ pc'[s] = "eq_route"
          /\ (pc'[s] = "eq_route" /\ pc[s] # "eq_route") =>
                (Reads(s, "earthquake") /\ authenticated[s])
          /\ (Leaves(s, "eq_route") /\ recipient_session[s] # None) =>
                /\ wrote' = <<[to |-> recipient_session[s],
                              frame |-> [cmd |-> "EARTHQUAKE_RECV",
                                         from_user |-> username[s],
                                         intensity |-> IF msg[s].intensity < 1 THEN 1
                                                       ELSE IF msg[s].intensity > 10 THEN 10
                                                       ELSE msg[s].intensity],
                              ok |-> sock[recipient_session[s]] = "open"]>>
                /\ pc'[s] = "recv"
          /\ (Leaves(s, "eq_route") /\ recipient_session[s] = None) =>
                /\ wrote' = <<[to |-> s, frame |-> build_error("User is offline"),
                              ok |-> sock[s] = "open"]>>
                /\ pc'[s] = "recv"
          /\ (\E i \in DOMAIN wrote' : wrote'[i].frame.cmd = "EARTHQUAKE_RECV") =>
                \E w \in Sessions : Leaves(w, "eq_route") /\ recipient_session[w] # None]_vars

\* a signal of intensity 0 reached another user's session as intensity 1
C24_Witness ==
    /\ last.op = "eq_route"
    /\ last.msg.intensity = 0
    /\ wrote[1].frame.cmd = "EARTHQUAKE_RECV"
    /\ wrote[1].frame.intensity = 1
    /\ wrote[1].to # last.s
    /\ wrote[1].ok

\* a signal for a registered user who is not logged in was answered with the error
C24_WitnessOffline ==
    /\ last.op = "eq_route"
    /\ UserExists(strip(last.msg.to))
    /\ wrote[1].frame.cmd = "ERROR"

\* the one response of the last step, written to the session that took it
Answered(action, code) ==
    /\ Len(wrote) = 1
    /\ wrote[1].to = last.s
    /\ wrote[1].frame.cmd = "RESPONSE"
    /\ wrote[1].frame.action = action
    /\ wrote[1].frame.code = code

Acceptable(m) ==
    /\ Len(strip(m.username)) >= 3
    /\ Len(strip(m.username)) <= 20
    /\ \A i \in DOMAIN strip(m.username) : strip(m.username)[i] \in AlnumChars
    /\ Len(m.password) >= 4
    /\ \A i \in DOMAIN users : users[i].username # strip(m.username)

\* the step adds the account of request m to the store and nothing else
Creates(m) ==
    /\ Len(users') = Len(users) + 1
    /\ SubSeq(users', 1, Len(users)) = users
    /\ users'[Len(users')] = [username |-> strip(m.username), password |-> m.password]

C27_UserSearch ==
    [][\A s \in Sessions :
          (Reads(s, "search") /\ authenticated[s] /\ wrote' # <<>>) =>
              LET q == strip(last'.msg.query)
                  found == wrote'[1].frame.users
              IN /\ Len(wrote') = 1
                 /\ wrote'[1].to = s
                 /\ wrote'[1].frame.cmd = "USER_SEARCH_RES"
                 /\ q = <<>> => found = <<>>
                 /\ Len(found) <= 20
                 /\ \A k \in DOMAIN found :
                       /\ UserExists(found[k])
                       /\ Contains(found[k], q)
                       /\ found[k] # username[s]
                 /\ pc'[s] = "recv"]_vars

\* the steps in which a connection ends: the read that fails or reads a logout, and
\* the steps of _cleanup_session
TeardownOps == {"disconnect", "bad_frame", "logout", "cleanup", "cleanup_bcast", "close"}

\* C28: a step of one connection's termination changes no other session's
\* authenticated flag, username or socket, and every registry entry of another
\* session that is in its read loop is still that session's entry after the step.
C28_PerConnectionIsolation ==
    [][last'.op \in TeardownOps =>
          \A t \in Sessions \ {last'.s} :
              /\ authenticated'[t] = authenticated[t]
              /\ username'[t] = username[t]
              /\ sock'[t] = sock[t]
              /\ pc'[t] = pc[t]
              /\ InLoop(t) =>
                    \A i \in DOMAIN clients :
                        clients[i].sess = t => Registered(clients[i].name, t)']_vars

\* C29: when a connection's worker has terminated, its socket is closed and no
\* registry entry refers to its session (the end state that the teardown of every
\* connection is to reach).
C29_TeardownCompletes ==
    \A s \in Sessions :
        pc[s] = "done" =>
            /\ sock[s] = "closed"
            /\ \A i \in DOMAIN clients : clients[i].sess # s

\* the step writes frame f to session t
Writes(t, f) == \E i \in DOMAIN wrote' : wrote'[i].to = t /\ wrote'[i].frame = f

\* C30: the step that takes a worker to its login reply has marked the session
\* authenticated and inserted it in the registry under its username; the LOGIN
\* success reply is written by the step after that and by no other; the ONLINE
\* events of a user are written by the step after the reply and by no other, to
\* sessions other than the user's; and when they are written the username is a key
\* of the registry, so that a peer that sees ONLINE finds the user there.
C30_LoginSuccessOrdering ==
    [][\A s \in Sessions :
          /\ (pc'[s] = "login_reply" /\ pc[s] # "login_reply") =>
                /\ authenticated'[s]
                /\ \E i \in DOMAIN clients' : clients'[i] = [name |-> username'[s], sess |-> s]
                /\ wrote' = <<>>
          /\ Writes(s, build_response("LOGIN", SUCCESS, "Login successful")) =>
                /\ Leaves(s, "login_reply")
                /\ pc'[s] = "login_bcast"
                /\ Len(wrote') = 1
          /\ (pc'[s] = "login_bcast" /\ pc[s] # "login_bcast") => Leaves(s, "login_reply")
          /\ (last'.s = s /\ \E i \in DOMAIN wrote' : /\ wrote'[i].frame.cmd = "PRESENCE"
                                                       /\ wrote'[i].frame.status = ONLINE) =>
                /\ Leaves(s, "login_bcast")
                /\ \A i \in DOMAIN wrote' :
                      wrote'[i].frame = build_presence(username[s], ONLINE)
          /\ Leaves(s, "login_bcast") =>
                /\ username[s] \in logins[s]
                /\ Has(clients, username[s])]_vars

\* C31: every registry entry u -> S has S.username = u.
C31_RegistryKeyIsSessionName ==
    \A i \in DOMAIN clients : username[clients[i].sess] = clients[i].name

\* C32: a session is the value of at most one registry key.
C32_OneNamePerSession ==
    \A s \in Sessions : Cardinality(NamesOf(clients, s)) <= 1

\* the step writes exactly one MSG_ACK, to session s, for msg_id and with a status
\* of the set
OneAck(s, msg_id, statuses) ==
    /\ Cardinality({i \in DOMAIN wrote' : wrote'[i].frame.cmd = "MSG_ACK"}) = 1
    /\ \E i \in DOMAIN wrote' :
          /\ wrote'[i].frame.cmd = "MSG_ACK"
          /\ wrote'[i].to = s
          /\ wrote'[i].frame.msg_id = msg_id
          /\ wrote'[i].frame.status \in statuses

NoAck == \A i \in DOMAIN wrote' : wrote'[i].frame.cmd # "MSG_ACK"

\* C33: a send-message read on an authenticated session is either acknowledged
\* INVALID_MESSAGE in the step that reads it or taken to the route step; the route
\* step either acknowledges USER_OFFLINE or goes on to the ack step, which
\* acknowledges DELIVERED or DELIVERY_FAILED; each of these acks is the only one of
\* its step, goes to the sender and has the request's msg_id; the worker takes no
\* other step in between and can always take the next one; no other step writes an
\* ack.
C33_ExactlyOneAck ==
    [][\A s \in Sessions :
          /\ (Reads(s, "send_msg") /\ authenticated[s]) =>
                \/ /\ pc'[s] = "recv"
                   /\ OneAck(s, last'.msg.msg_id, {INVALID_MESSAGE})
                \/ /\ pc'[s] = "msg_route"
                   /\ msg'[s] = last'.msg
                   /\ NoAck
          /\ Leaves(s, "msg_route") =>
                \/ /\ pc'[s] = "recv"
                   /\ OneAck(s, msg[s].msg_id, {USER_OFFLINE})
                \/ /\ pc'[s] = "msg_ack"
                   /\ msg'[s] = msg[s]
                   /\ NoAck
          /\ Leaves(s, "msg_ack") =>
                /\ pc'[s] = "recv"
                /\ OneAck(s, msg[s].msg_id, {DELIVERED, DELIVERY_FAILED})
          /\ (pc[s] \in {"msg_route", "msg_ack"} /\ pc'[s] # pc[s]) => pc'[s] \in {"recv", "msg_ack"}
          /\ pc[s] = "msg_route" => ENABLED MsgRoute(s)
          /\ pc[s] = "msg_ack" => ENABLED MsgAck(s)
          /\ (last'.s = s /\ ~NoAck) =>
                \/ Reads(s, "send_msg") /\ authenticated[s]
                \/ Leaves(s, "msg_route")
                \/ Leaves(s, "msg_ack")]_vars

\* all four statuses are acknowledged
C33_Witness ==
    /\ last.op = "msg_ack"
    /\ wrote[1].frame.status = DELIVERY_FAILED
    /\ wrote[1].frame.msg_id = last.msg.msg_id
    /\ frames = MaxFrames

\* C34: a worker comes to its ack step only by the step that writes the
\* receive-message event to the session its lookup found, and that step records
\* whether the write succeeded; the record is not changed before the ack; the acks
\* DELIVERED and DELIVERY_FAILED are written by the ack step only, DELIVERED only
\* when the forward write succeeded; a receive-message event is written by no ack
\* step.
C34_ForwardPrecedesAck ==
    [][\A s \in Sessions :
          /\ (pc'[s] = "msg_ack" /\ pc[s] # "msg_ack") =>
                /\ pc[s] = "msg_route"
                /\ Len(wrote') = 1
                /\ wrote'[1].frame.cmd = "MSG_RECEIVE"
                /\ wrote'[1].frame.msg_id = msg[s].msg_id
                /\ wrote'[1].to = recipient_session[s]
                /\ delivered'[s] = wrote'[1].ok
          /\ (pc[s] = "msg_ack" /\ pc'[s] = "msg_ack") =>
                (delivered'[s] = delivered[s] /\ msg'[s] = msg[s])
          /\ (\E i \in DOMAIN wrote' : /\ wrote'[i].frame.cmd = "MSG_ACK"
                                        /\ wrote'[i].to = s
                                        /\ wrote'[i].frame.status \in {DELIVERED, DELIVERY_FAILED}) =>
                /\ Leaves(s, "msg_ack")
                /\ \A i \in DOMAIN wrote' : wrote'[i].frame.cmd # "MSG_RECEIVE"
                /\ wrote'[1].frame.status = DELIVERED => delivered[s]]_vars

\* the ack after a forward write that failed
C34_Witness ==
    /\ last.op = "msg_ack"
    /\ wrote[1].frame.status = DELIVERY_FAILED
    /\ sock[last.s] = "open"
    /\ wrote[1].ok

\* the positions between a request's registry lookup and its forward write
RoutePositions == {"msg_route", "eq_route"}

\* the step writes a receive-message or signal event
Forwards(i) == wrote'[i].frame.cmd \in {"MSG_RECEIVE", "EARTHQUAKE_RECV"}

\* C35 as stated: when a receive-message or signal event is written to a session
\* for the recipient name of a request, that session is the registry's entry for the
\* trimmed name in the state the write is made in.
C35_NoDeliveryToDeparted ==
    [][\A s \in Sessions :
          (pc[s] \in RoutePositions /\ Leaves(s, pc[s])) =>
              \A i \in DOMAIN wrote' :
                  Forwards(i) => Registered(strip(msg[s].to), wrote'[i].to)]_vars

\* C35 as amended: when a receive-message or signal event is written, it is written
\* by the route step of a request, as the step's only frame, to the session that the
\* request's lookup found under the trimmed recipient name in the registry; the
\* request and the session found are not changed between the lookup and the write
\* (the registry may be: the entry can be gone when the write is made).
C35_DeliveryToSessionFoundAtLookup ==
    [][\A s \in Sessions :
          /\ (pc'[s] \in RoutePositions /\ pc[s] \notin RoutePositions) =>
                /\ pc[s] = "recv"
                /\ msg'[s] = last'.msg
                /\ recipient_session'[s] = Get(clients, strip(last'.msg.to))
                /\ clients' = clients
          /\ (pc[s] \in RoutePositions /\ pc'[s] = pc[s]) =>
                /\ msg'[s] = msg[s]
                /\ recipient_session'[s] = recipient_session[s]
          /\ (last'.s = s /\ \E i \in DOMAIN wrote' : Forwards(i)) =>
                /\ pc[s] \in RoutePositions
                /\ Leaves(s, pc[s])
                /\ recipient_session[s] # None
                /\ Len(wrote') = 1
                /\ wrote'[1].to = recipient_session[s]]_vars

\* a message was written, and acknowledged as delivered, to the session found at the
\* lookup after the recipient's entry had been removed
C35_Witness ==
    /\ last.op = "msg_ack"
    /\ wrote[1].frame.status = DELIVERED
    /\ ~Has(clients, strip(last.msg.to))
    /\ UserExists(strip(last.msg.to))

\* the thread that holds the lock thread w waits for, or None
WaitsFor(w) ==
    IF clients_lock[w] = "wait"
    THEN IF \E v \in Sessions : clients_lock[v] = "in"
         THEN CHOOSE v \in Sessions : clients_lock[v] = "in"
         ELSE None
    ELSE IF tx[w].at = "wait" THEN lock[tx[w].to]
    ELSE None

\* the thread reached from w by k steps of waiting
RECURSIVE WaitChain(_, _)
WaitChain(w, k) ==
    IF k = 0 \/ w = None THEN w ELSE WaitChain(WaitsFor(w), k - 1)

\* C36: at most one thread is inside a block that holds the registry mutex; a thread
\* that holds a session's write lock is neither waiting for the registry mutex nor
\* entering a block; a thread that waits for or holds a session's lock while it is
\* inside a block took the registry mutex first; and no thread waits, through any
\* chain of lock holders, for itself.
C36_LockOrdering ==
    /\ Cardinality({w \in Sessions : clients_lock[w] = "in"}) <= 1
    /\ \A w \in Sessions :
          /\ (\E t \in Sessions : lock[t] = w) => clients_lock[w] # "wait"
          /\ tx[w].at # "idle" => clients_lock[w] # "wait"
          /\ \A k \in 1..NumSessions : WaitChain(w, k) # w

\* a thread sends inside a block while another thread waits for the registry mutex
\* and the session's lock is held by the sender
C36_Witness ==
    \E w, v \in Sessions :
        /\ w # v
        /\ clients_lock[w] = "in"
        /\ tx[w].at = "in"
        /\ lock[tx[w].to] = w
        /\ clients_lock[v] = "wait"

\* C37: a login that names a key of the registry is answered with the one failure
\* reply "User already logged in" to the requester, whatever its password: every
\* variable after the step is fixed by the state before it and the requester alone,
\* and the worker is back in its read loop without reaching the place where the
\* store is asked (login_auth), which only a login for a name that is not a key
\* of the registry reaches.
C37_CollisionReplyIgnoresPassword ==
    [][\A s \in Sessions :
          /\ (Reads(s, "login") /\ Has(clients, strip(last'.msg.username))) =>
                /\ wrote' = <<[to |-> s,
                              frame |-> build_response("LOGIN", FAIL,
                                                       "User already logged in"),
                              ok |-> TRUE]>>
                /\ pc' = [pc EXCEPT ![s] = "recv"]
                /\ msg' = [msg EXCEPT ![s] = NoMsg]
                /\ recipient_session' = [recipient_session EXCEPT ![s] = None]
                /\ delivered' = [delivered EXCEPT ![s] = FALSE]
                /\ UNCHANGED <<wire, store, clients, session_fields, sock, history>>
          /\ (pc[s] # "login_auth" /\ pc'[s] = "login_auth") =>
                /\ Reads(s, "login")
                /\ msg'[s] = last'.msg
                /\ ~Has(clients, strip(msg'[s].username))]_vars

\* a login with a password that is not the user's, for a user that is logged in on
\* another session, has been answered with "User already logged in"
C37_Witness ==
    /\ last.op = "login"
    /\ last.msg.password = Nope
    /\ UserExists(strip(last.msg.username))
    /\ users[UserRow(strip(last.msg.username))].password # Nope
    /\ Has(clients, strip(last.msg.username))
    /\ Get(clients, strip(last.msg.username)) # last.s
    /\ wrote = <<[to |-> last.s,
                  frame |-> build_response("LOGIN", FAIL, "User already logged in"),
                  ok |-> TRUE]>>

\* C38: a send-signal causes one frame at most. Reading it writes nothing when the
\* sender is authenticated and the one "Not authenticated" error otherwise; when the
\* lookup found a session, the step that forwards writes the one event to that
\* session and nothing else, neither an ack nor an error to the sender, whether or
\* not that write succeeded; when the lookup found none, it writes the one error
\* to the sender and no event. The request is over with that step.
C38_SignalSenderGetsNoOutcome ==
    [][\A s \in Sessions :
          /\ Reads(s, "earthquake") =>
                /\ Len(wrote') = IF authenticated[s] THEN 0 ELSE 1
                /\ ~authenticated[s] => pc'[s] = "recv"
                /\ \A i \in DOMAIN wrote' : wrote'[i].frame.cmd = "ERROR" /\ wrote'[i].to = s
          /\ Leaves(s, "eq_route") =>
                /\ Len(wrote') = 1
                /\ pc'[s] = "recv"
                /\ IF recipient_session[s] # None
                   THEN /\ wrote'[1].to = recipient_session[s]
                        /\ wrote'[1].frame.cmd = "EARTHQUAKE_RECV"
                   ELSE /\ wrote'[1].to = s
                        /\ wrote'[1].frame.cmd = "ERROR"
          /\ (pc[s] = "eq_route" /\ ~Leaves(s, "eq_route")) =>
                \A i \in DOMAIN wrote' :
                    wrote'[i].to = s => wrote'[i].frame.cmd \notin {"ERROR", "MSG_ACK"}]_vars

\* the forward of a signal to another session failed and the sender, whose socket is
\* open, was written nothing
C38_Witness ==
    /\ last.op = "eq_route"
    /\ Len(wrote) = 1
    /\ wrote[1].frame.cmd = "EARTHQUAKE_RECV"
    /\ ~wrote[1].ok
    /\ wrote[1].to # last.s
    /\ sock[last.s] = "open"
    /\ authenticated[last.s]

====
